---- MODULE Spec2Model ----
(***************************************************************************)
(* A model of the Kubernetes query agent: the query router                 *)
(* (app/api/query_handler.py and the per-category handlers under           *)
(* app/services/kubernetes) and the relationship resolver of the           *)
(* ConfigMap, Secret and PersistentVolumeClaim inspectors.                 *)
(*                                                                         *)
(* Texts are modelled structurally.  A text is a record                    *)
(*   [tpl |-> the fixed words of the (f-)string, arg |-> the value the     *)
(*    f-string interpolates, lines |-> the "\n".join-ed lines after it],   *)
(* each line a sequence of strings: <<"Deployment", "w1">> stands for the  *)
(* line "Deployment/w1" and <<"a">> for the line "a".                      *)
(***************************************************************************)
EXTENDS Integers, Sequences, FiniteSets, TLC

VARIABLES
    cluster,    \* the objects the cluster API serves, in the order it returns them
    outage,     \* the operations of the cluster API that fail while the query runs
    query,      \* the KubernetesQuery under execution
    entry,      \* the entry point that executed the query ("idle" before)
    result,     \* what the entry point returned or raised
    calls,      \* the cluster API operations made for the query, in order
    hash_order, \* the order in which this process iterates over a set of strings
    listed,     \* what the listings of a scan under way have returned, in order
    history,    \* the states the cluster has been in since the scan began
    kubeconfig,     \* the context the kubeconfig file names (None: no file)
    configuration,  \* the default configuration of the cluster API client
    handling,       \* the request the server handles, and where it is in it
    connected       \* per request handled, the configuration its client took

vars == <<cluster, outage, query, entry, result, calls, hash_order, listed, history,
          kubeconfig, configuration, handling, connected>>

\* The variables of the server's process, and those of one scan.
process == <<kubeconfig, configuration, handling, connected>>
scan == <<listed, history>>

----------------------------------------------------------------------------
(* Values *)

\* Python's None, for the string-valued fields of a query and of an object.
None == "<None>"

\* bool(x) of an Optional[str].
Truthy(x) == x # None /\ x # ""

\* Sequence helpers.
SeqToSet(s) == {s[i] : i \in DOMAIN s}

RECURSIVE SelectSeqBy(_, _)
\* [x for x in s if x \in keep], order kept.
SelectSeqBy(s, keep) ==
    IF s = <<>> THEN <<>>
    ELSE IF Head(s) \in keep
         THEN <<Head(s)>> \o SelectSeqBy(Tail(s), keep)
         ELSE SelectSeqBy(Tail(s), keep)

Text(tpl, arg, lines) == [tpl |-> tpl, arg |-> arg, lines |-> lines]

RECURSIVE JoinWith(_, _)
\* sep.join(strings)
JoinWith(strings, sep) ==
    IF strings = <<>> THEN ""
    ELSE IF Len(strings) = 1 THEN Head(strings)
    ELSE Head(strings) \o sep \o JoinWith(Tail(strings), sep)

\* The text of a listing that found nothing: its fixed words, kept one by one
\* beside the string they make, and the value interpolated after them.
Sentence(words, arg) ==
    [tpl |-> JoinWith(words, " "), arg |-> arg, lines |-> <<>>, words |-> words]


\* An outcome of a call: a returned text or a raised exception, with the
\* cluster API operations the call made.
Returned(text, made) == [status |-> "returned", text |-> text, calls |-> made]
Raised(exc, made) == [status |-> "raised", text |-> Text(exc, "", <<>>), calls |-> made]

\* `phrase in text` for the fixed phrases the code searches for.  Interpolated
\* values and lines are object names (lower-case DNS labels) and "Kind/name"
\* tags; none of them can hold a phrase with blanks, so the phrase occurs in
\* the text exactly when it is the text's fixed words.
Contains(text, phrase) == text.tpl = phrase

----------------------------------------------------------------------------
(* The cluster API (the kubernetes client) *)

Call(op, ok) == [op |-> op, ok |-> ok]

\* The label selectors of at most n terms that an object carrying the labels
\* satisfies, as the strings the API server parses: "" (no term), "k=v", and
\* the comma-joined selectors of several of the object's labels.
RECURSIVE SelectorsOver(_, _)
SelectorsOver(labels, n) ==
    IF n = 0 THEN {""}
    ELSE LET shorter == SelectorsOver(labels, n - 1)
             terms == {l[1] \o "=" \o l[2] : l \in SeqToSet(labels)}
         IN  shorter \cup terms \cup {s \o "," \o t : s \in shorter \ {""}, t \in terms}

\* The API server's reading of label_selector: the empty string selects
\* every object, "k=v,..." the objects that carry each of the labels.
Matches(labels, selector) == selector \in SelectorsOver(labels, Len(labels))

\* list_namespaced_<kind>(namespace, label_selector).items
ListNamespaced(objects, namespace, selector) ==
    SelectSeqBy(objects, {o \in SeqToSet(objects) :
                             o.namespace = namespace /\ Matches(o.labels, selector)})

----------------------------------------------------------------------------
(* KubernetesBase *)

NoLabels == [kind |-> "None", entries |-> <<>>]

\* A variant of label_selector that joins the pairs last to first instead of
\* in the mapping's own order: C17 must not hold of it.
label_selector_reversed(labels) ==
    JoinWith([i \in DOMAIN labels |->
                 labels[Len(labels) + 1 - i][1] \o "=" \o labels[Len(labels) + 1 - i][2]], ",")

\* ",".join([f"{k}={v}" for k, v in self.labels.items()]) if self.labels else "",
\* the items of the dict in its own (insertion) order.
label_selector(labels) ==
    IF labels # <<>>
    THEN JoinWith([i \in DOMAIN labels |-> labels[i][1] \o "=" \o labels[i][2]], ",")
    ELSE ""

\* KubernetesBase.__init__: the label selector of an inspector, or the
\* exception the constructor raises.  `labels or {}` maps None and the empty
\* container to {}; `.items()` exists on a dict only.
KubernetesBase(namespace, labels, failing) ==
    IF "load_kube_config" \in failing
    THEN [raised |-> "ConfigException", namespace |-> namespace, label_selector |-> ""]
    ELSE IF labels.kind = "None" \/ labels.entries = <<>>
    THEN [raised |-> None, namespace |-> namespace, label_selector |-> label_selector(<<>>)]
    ELSE IF labels.kind = "dict"
    THEN [raised |-> None, namespace |-> namespace,
          label_selector |-> label_selector(labels.entries)]
    ELSE [raised |-> "AttributeError", namespace |-> namespace, label_selector |-> ""]

----------------------------------------------------------------------------
(* The relationship resolver: which workloads reference an object *)

\* A variant of _uses_configmap that looks at the volumes only and misses the
\* envFrom and env references: C5 must not hold of it.
_uses_configmap_volumes_only(pod_spec, configmap_name) ==
    \E i \in DOMAIN pod_spec.volumes : pod_spec.volumes[i].config_map = configmap_name

\* ConfigMapResource._uses_configmap(pod_spec, configmap_name)
_uses_configmap(pod_spec, configmap_name) ==
    \/ \E i \in DOMAIN pod_spec.volumes :
          /\ pod_spec.volumes[i].config_map # None
          /\ pod_spec.volumes[i].config_map = configmap_name
    \/ \E c \in DOMAIN pod_spec.containers :
          \/ \E i \in DOMAIN pod_spec.containers[c].env_from :
                /\ pod_spec.containers[c].env_from[i].config_map_ref # None
                /\ pod_spec.containers[c].env_from[i].config_map_ref = configmap_name
          \/ \E i \in DOMAIN pod_spec.containers[c].env :
                /\ pod_spec.containers[c].env[i].config_map_key_ref # None
                /\ pod_spec.containers[c].env[i].config_map_key_ref = configmap_name

\* A variant of _uses_secret that misses the imagePullSecrets entries: C24
\* must not hold of it.
_uses_secret_without_pull(pod_spec, secret_name) ==
    \/ \E i \in DOMAIN pod_spec.volumes : pod_spec.volumes[i].secret = secret_name
    \/ \E c \in DOMAIN pod_spec.containers :
          \/ \E i \in DOMAIN pod_spec.containers[c].env_from :
                pod_spec.containers[c].env_from[i].secret_ref = secret_name
          \/ \E i \in DOMAIN pod_spec.containers[c].env :
                pod_spec.containers[c].env[i].secret_key_ref = secret_name

\* SecretResource._uses_secret(pod_spec, secret_name)
_uses_secret(pod_spec, secret_name) ==
    \/ \E i \in DOMAIN pod_spec.volumes :
          /\ pod_spec.volumes[i].secret # None
          /\ pod_spec.volumes[i].secret = secret_name
    \/ \E c \in DOMAIN pod_spec.containers :
          \/ \E i \in DOMAIN pod_spec.containers[c].env_from :
                /\ pod_spec.containers[c].env_from[i].secret_ref # None
                /\ pod_spec.containers[c].env_from[i].secret_ref = secret_name
          \/ \E i \in DOMAIN pod_spec.containers[c].env :
                /\ pod_spec.containers[c].env[i].secret_key_ref # None
                /\ pod_spec.containers[c].env[i].secret_key_ref = secret_name
    \/ \E i \in DOMAIN pod_spec.image_pull_secrets :
          pod_spec.image_pull_secrets[i].name = secret_name

\* PersistentVolumeClaimResource._uses_pvc(pod_spec, pvc_name)
_uses_pvc(pod_spec, pvc_name) ==
    \E i \in DOMAIN pod_spec.volumes :
        /\ pod_spec.volumes[i].persistent_volume_claim # None
        /\ pod_spec.volumes[i].persistent_volume_claim = pvc_name

\* The four listings every used_by scan makes, in the order it makes them.
WorkloadListings ==
    << "list_namespaced_deployment", "list_namespaced_stateful_set",
       "list_namespaced_daemon_set", "list_namespaced_pod" >>

\* The calls of a sequence of cluster API operations made one after another:
\* the first one that fails raises, and the ones after it are not made.
RECURSIVE CallsUntilFailure(_, _)
CallsUntilFailure(ops, failing) ==
    IF ops = <<>> THEN <<>>
    ELSE IF Head(ops) \in failing
         THEN << Call(Head(ops), FALSE) >>
         ELSE << Call(Head(ops), TRUE) >> \o CallsUntilFailure(Tail(ops), failing)

AnyFailed(made) == \E i \in DOMAIN made : ~made[i].ok

\* self._uses_configmap, self._uses_secret or self._uses_pvc, by the class of
\* self: "ConfigMap", "Secret" or "PVC".
Uses(class, pod_spec, name) ==
    CASE class = "ConfigMap" -> _uses_configmap(pod_spec, name)
      [] class = "Secret" -> _uses_secret(pod_spec, name)
      [] OTHER -> _uses_pvc(pod_spec, name)

\* "Kind/name" for each object of the listing whose pod spec uses the target.
TagUsers(class, kind, objects, name) ==
    LET users == SelectSeqBy(objects, {o \in SeqToSet(objects) : Uses(class, o.spec, name)})
    IN  [i \in DOMAIN users |-> << kind, users[i].name >>]

\* A variant of Unowned that drops the owner test and lets every pod
\* through: C4 must not hold of it.
Unowned_every_pod(pods) == pods

\* A variant of Unowned that takes the pods of a Job for standalone pods: C30
\* must not hold of it.
Unowned_or_of_job(pods) ==
    SelectSeqBy(pods, {p \in SeqToSet(pods) : p.owner_references \in {<<>>, << "Job" >>}})

\* The pods the scan looks at: `if not p.metadata.owner_references`.
Unowned(pods) ==
    SelectSeqBy(pods, {p \in SeqToSet(pods) : p.owner_references = <<>>})

\* The body of the three used_by scans after their listings: the loops over
\* deployments, statefulsets, daemonsets and unowned pods, appending in turn.
WorkloadsUsing(class, cl, namespace, name) ==
    TagUsers(class, "Deployment", ListNamespaced(cl.deployments, namespace, ""), name)
    \o TagUsers(class, "StatefulSet", ListNamespaced(cl.statefulsets, namespace, ""), name)
    \o TagUsers(class, "DaemonSet", ListNamespaced(cl.daemonsets, namespace, ""), name)
    \o TagUsers(class, "Pod", Unowned(ListNamespaced(cl.pods, namespace, "")), name)

\* ConfigMapResource.get_workloads_using_configmap(configmap_name)
get_workloads_using_configmap(self, configmap_name, cl, failing) ==
    LET made == CallsUntilFailure(WorkloadListings, failing)
        workloads_using_cm == WorkloadsUsing("ConfigMap", cl, self.namespace, configmap_name)
    IN  IF AnyFailed(made)
        THEN Returned(Text("Error finding workloads using configmap", "", <<>>), made)
        ELSE IF workloads_using_cm # <<>>
        THEN Returned(Text("Workloads using ConfigMap", configmap_name, workloads_using_cm), made)
        ELSE Returned(Text("No workloads are using ConfigMap", configmap_name, <<>>), made)

\* SecretResource.get_workloads_using_secret(secret_name)
get_workloads_using_secret(self, secret_name, cl, failing) ==
    LET made == CallsUntilFailure(WorkloadListings, failing)
        workloads_using_secret == WorkloadsUsing("Secret", cl, self.namespace, secret_name)
    IN  IF AnyFailed(made)
        THEN Returned(Text("Error finding workloads using secret", "", <<>>), made)
        ELSE IF workloads_using_secret # <<>>
        THEN Returned(Text("Workloads using Secret", secret_name, workloads_using_secret), made)
        ELSE Returned(Text("No workloads are using Secret", secret_name, <<>>), made)

\* PersistentVolumeClaimResource.get_workloads_using_pvc(pvc_name)
get_workloads_using_pvc(self, pvc_name, cl, failing) ==
    LET made == CallsUntilFailure(WorkloadListings, failing)
        workloads_using_pvc == WorkloadsUsing("PVC", cl, self.namespace, pvc_name)
    IN  IF AnyFailed(made)
        THEN Returned(Text("Error finding workloads using PVC", "", <<>>), made)
        ELSE IF workloads_using_pvc # <<>>
        THEN Returned(Text("Workloads using PVC", pvc_name, workloads_using_pvc), made)
        ELSE Returned(Text("No workloads are using PVC", pvc_name, <<>>), made)

\* The used_by scan of one listed object: the ConfigMap scan or the Secret
\* scan, as the phrase searched for tells.
ScanOf(phrase, self, name, cl, failing) ==
    IF phrase = "No workloads are using ConfigMap"
    THEN get_workloads_using_configmap(self, name, cl, failing)
    ELSE get_workloads_using_secret(self, name, cl, failing)

\* The calls of the scans, one scan after the other.
RECURSIVE Flatten(_)
Flatten(seqs) == IF seqs = <<>> THEN <<>> ELSE Head(seqs) \o Flatten(Tail(seqs))

\* The loop of an unused query: one used_by scan per listed object, the name
\* kept when the scan's text holds the phrase.
\* Returns [names |-> the names kept, calls |-> the calls of all the scans].
ScanEach(phrase, self, objects, cl, failing) ==
    LET scans == [i \in DOMAIN objects |-> ScanOf(phrase, self, objects[i].name, cl, failing)]
        kept == SelectSeqBy([i \in DOMAIN objects |-> i],
                            {i \in DOMAIN objects : Contains(scans[i].text, phrase)})
    IN  [names |-> [k \in DOMAIN kept |-> << objects[kept[k]].name >>],
         calls |-> Flatten([i \in DOMAIN objects |-> scans[i].calls])]

\* ConfigMapResource.list_configmaps(): the names, joined by ", " (here one
\* line per name under no fixed words).
list_configmaps(self, cl, failing) ==
    LET listing == Call("list_namespaced_config_map", "list_namespaced_config_map" \notin failing)
        configmaps == ListNamespaced(cl.config_maps, self.namespace, self.label_selector)
    IN  IF ~listing.ok
        THEN Returned(Text("Error listing configmaps", "", <<>>), <<listing>>)
        ELSE IF configmaps = <<>>
        THEN Returned(Sentence(<<"No", "configmaps", "found.">>, ""), <<listing>>)
        ELSE Returned(Text("", "", [i \in DOMAIN configmaps |-> << configmaps[i].name >>]),
                      <<listing>>)

\* A variant of get_unused_configmaps that scans nothing and answers with
\* every listed ConfigMap: C2 must not hold of it.
get_unused_configmaps_unscanned(self, cl, failing) ==
    LET listing == Call("list_namespaced_config_map", "list_namespaced_config_map" \notin failing)
        configmaps == ListNamespaced(cl.config_maps, self.namespace, self.label_selector)
    IN  IF ~listing.ok
        THEN Returned(Text("Error retrieving unused configmaps", "", <<>>), <<listing>>)
        ELSE IF configmaps = <<>>
        THEN Returned(Text("No configmaps found.", "", <<>>), <<listing>>)
        ELSE Returned(Text("Unused ConfigMaps:", "",
                           [i \in DOMAIN configmaps |-> << configmaps[i].name >>]),
                      <<listing>>)

\* ConfigMapResource.get_unused_configmaps()
get_unused_configmaps(self, cl, failing) ==
    LET listing == Call("list_namespaced_config_map", "list_namespaced_config_map" \notin failing)
        configmaps == ListNamespaced(cl.config_maps, self.namespace, self.label_selector)
        scans == ScanEach("No workloads are using ConfigMap", self, configmaps, cl, failing)
    IN  IF ~listing.ok
        THEN Returned(Text("Error retrieving unused configmaps", "", <<>>), <<listing>>)
        ELSE IF configmaps = <<>>
        THEN Returned(Text("No configmaps found.", "", <<>>), <<listing>>)
        ELSE IF scans.names # <<>>
        THEN Returned(Text("Unused ConfigMaps:", "", scans.names), <<listing>> \o scans.calls)
        ELSE Returned(Text("All ConfigMaps are used by workloads.", "", <<>>),
                      <<listing>> \o scans.calls)

\* SecretResource.get_unused_secrets()
get_unused_secrets(self, cl, failing) ==
    LET listing == Call("list_namespaced_secret", "list_namespaced_secret" \notin failing)
        secrets == ListNamespaced(cl.secrets, self.namespace, self.label_selector)
        scans == ScanEach("No workloads are using Secret", self, secrets, cl, failing)
    IN  IF ~listing.ok
        THEN Returned(Text("Error retrieving unused secrets", "", <<>>), <<listing>>)
        ELSE IF secrets = <<>>
        THEN Returned(Text("No secrets found.", "", <<>>), <<listing>>)
        ELSE IF scans.names # <<>>
        THEN Returned(Text("Unused Secrets:", "", scans.names), <<listing>> \o scans.calls)
        ELSE Returned(Text("All Secrets are used by workloads.", "", <<>>),
                      <<listing>> \o scans.calls)

\* The names of the imagePullSecrets entries of the pods, in the order the
\* loops over the pods and over their entries come to them.
RECURSIVE PullSecretNames(_)
PullSecretNames(pods) ==
    IF pods = <<>> THEN <<>>
    ELSE [i \in DOMAIN Head(pods).spec.image_pull_secrets |->
             Head(pods).spec.image_pull_secrets[i].name]
         \o PullSecretNames(Tail(pods))

\* Iterating over set(added), a set of str: each name once, in the order of
\* the hashes of the strings, which the hash seed of the process decides.
SetOrder(order, added) == SelectSeqBy(order, SeqToSet(added))

\* SecretResource.get_image_pull_secrets()
get_image_pull_secrets(self, order, cl, failing) ==
    LET listing == Call("list_namespaced_pod", "list_namespaced_pod" \notin failing)
        image_pull_secrets == PullSecretNames(ListNamespaced(cl.pods, self.namespace, ""))
    IN  IF ~listing.ok
        THEN Returned(Text("Error retrieving imagePullSecrets", "", <<>>), <<listing>>)
        ELSE IF image_pull_secrets # <<>>
        THEN Returned(Text("Secrets used as imagePullSecrets:", "",
                           [i \in DOMAIN SetOrder(order, image_pull_secrets) |->
                               << SetOrder(order, image_pull_secrets)[i] >>]),
                      <<listing>>)
        ELSE Returned(Text("No secrets used as imagePullSecrets.", "", <<>>), <<listing>>)

----------------------------------------------------------------------------
(* Quantities: parse_size *)

\* The decimal digits, and the magnitudes the size literals of the model are
\* written with: the characters of each and the number they denote.
DigitValue ==
    [c \in {"0", "1", "2", "3", "4", "5", "6", "7", "8", "9"} |->
        CASE c = "0" -> 0 [] c = "1" -> 1 [] c = "2" -> 2 [] c = "3" -> 3 [] c = "4" -> 4
          [] c = "5" -> 5 [] c = "6" -> 6 [] c = "7" -> 7 [] c = "8" -> 8 [] OTHER -> 9]

Magnitudes ==
    { <<"0">>, <<"1">>, <<"2">>, <<"1", "0">>, <<"5", "0">>, <<"1", "0", "0">>,
      <<"1", "0", "2", "3">>, <<"1", "0", "2", "4">>, <<"1", "5", "0", "0">> }

BinaryUnits ==
    { <<>>, <<"K", "i">>, <<"M", "i">>, <<"G", "i">>, <<"T", "i">>, <<"P", "i">> }

\* Literals that do not begin with a digit.
Malformed == { <<"G", "i">>, <<"b", "i", "g">>, <<".", "5", "G", "i">> }

\* The size literals of the model, each the sequence of its characters.
SizeLiterals == {m \o u : m \in Magnitudes, u \in BinaryUnits} \cup Malformed

\* The characters of a str, for the strs that are size literals.
Chars(str) == CHOOSE c \in SizeLiterals : JoinWith(c, "") = str

\* A Python int (of arbitrary precision) as its limbs to the base 1024, the
\* most significant first and none for 0.
RECURSIVE Limbs(_)
Limbs(n) == IF n = 0 THEN <<>> ELSE Limbs(n \div 1024) \o << n % 1024 >>

\* x * 1024 ** k
RECURSIVE Times1024(_, _)
Times1024(x, k) ==
    IF x = <<>> \/ k = 0 THEN x ELSE Times1024(x \o << 0 >>, k - 1)

\* x < y of two ints.
Less(x, y) ==
    \/ Len(x) < Len(y)
    \/ /\ Len(x) = Len(y)
       /\ \E i \in DOMAIN x : x[i] < y[i] /\ \A j \in 1..(i - 1) : x[j] = y[j]

\* int(match.group(1)) of a run of digits.
RECURSIVE IntOf(_)
IntOf(digits) ==
    IF digits = <<>> THEN 0
    ELSE 10 * IntOf(SubSeq(digits, 1, Len(digits) - 1)) + DigitValue[digits[Len(digits)]]

\* (\d+): how many characters the longest run of leading digits has.
LeadingDigits(chars) ==
    CHOOSE n \in 0..Len(chars) :
        /\ \A i \in 1..n : chars[i] \in DOMAIN DigitValue
        /\ n < Len(chars) => chars[n + 1] \notin DOMAIN DigitValue

\* ([KMGTP]i?)? and the units table: the power of 1024 of what follows the
\* digits.  The table knows '', Ki, Mi, Gi, Ti and Pi; any other unit that
\* matched counts as 1, like no unit.
UnitPower(rest) ==
    IF Len(rest) < 2 THEN 0
    ELSE IF rest[2] # "i" THEN 0
    ELSE CASE rest[1] = "K" -> 1 [] rest[1] = "M" -> 2 [] rest[1] = "G" -> 3
           [] rest[1] = "T" -> 4 [] rest[1] = "P" -> 5 [] OTHER -> 0

\* number * units.get(unit, 1) of a match, and 0 when nothing matched.
SizeOfMatch(chars, digits, power) ==
    IF digits = 0 THEN <<>>
    ELSE Times1024(Limbs(IntOf(SubSeq(chars, 1, digits))), power)

\* A variant of parse_size that reads the digits and drops the unit: C13 must
\* not hold of it.
parse_size_unitless(size_str) ==
    SizeOfMatch(Chars(size_str), LeadingDigits(Chars(size_str)), 0)

\* parse_size(size_str): re.match(r'(\d+)([KMGTP]i?)?', size_str) takes the
\* longest run of leading digits and then, if there, one of K M G T P with
\* an i after it or not; no digit, no match, and the size is 0.
parse_size(size_str) ==
    SizeOfMatch(Chars(size_str), LeadingDigits(Chars(size_str)),
                UnitPower(SubSeq(Chars(size_str), LeadingDigits(Chars(size_str)) + 1,
                                 Len(Chars(size_str)))))

\* The condition of the capacity filter's if:
\* (operator == '>' and pv_size > threshold) or ('<' ... <) or ('=' ... ==).
CapacityMatches(operator, pv_size, threshold) ==
    \/ operator = ">" /\ Less(threshold, pv_size)
    \/ operator = "<" /\ Less(pv_size, threshold)
    \/ operator = "=" /\ pv_size = threshold

----------------------------------------------------------------------------
(* The persistent volume and persistent volume claim inspectors *)

\* The lines of a listing: the name of each object, or "name (capacity)".
Names(objects) == [i \in DOMAIN objects |-> << objects[i].name >>]
NamesWithCapacity(objects) ==
    [i \in DOMAIN objects |-> << objects[i].name, objects[i].capacity >>]

\* list_persistent_volume(label_selector).items; volumes have no namespace.
ListVolumes(cl, selector) ==
    SelectSeqBy(cl.persistent_volumes,
                {pv \in SeqToSet(cl.persistent_volumes) : Matches(pv.labels, selector)})

\* What a method that lists the volumes and keeps some of them returns.
VolumeListing(found, none, error, arg, lines, failing) ==
    LET listing == Call("list_persistent_volume", "list_persistent_volume" \notin failing)
    IN  IF ~listing.ok THEN Returned(error, <<listing>>)
        ELSE IF lines # <<>> THEN Returned(Text(found, arg, lines), <<listing>>)
        ELSE Returned(Sentence(none, arg), <<listing>>)

\* PersistentVolumeResource.list_persistent_volumes()
list_persistent_volumes(self, cl, failing) ==
    LET pvs == ListVolumes(cl, self.label_selector)
    IN  VolumeListing("Persistent Volumes in the cluster:", <<"No", "persistent", "volumes", "found.">>,
                      Text("Error listing persistent volumes", "", <<>>), "",
                      Names(pvs), failing)

\* PersistentVolumeResource.find_pvs_by_storage_class(storage_class_name)
find_pvs_by_storage_class(self, storage_class_name, cl, failing) ==
    LET pvs == ListVolumes(cl, "")
        matching_pvs == SelectSeqBy(pvs, {pv \in SeqToSet(pvs) :
                                             pv.storage_class_name = storage_class_name})
    IN  VolumeListing("PersistentVolumes using storage class",
                      <<"No", "PersistentVolumes", "found", "using", "storage", "class">>,
                      Text("Error finding persistent volumes using storage class",
                           storage_class_name, <<>>),
                      storage_class_name,
                      Names(matching_pvs), failing)

\* PersistentVolumeResource.list_pvs_by_capacity(operator, size); its except
\* clause catches every exception.
list_pvs_by_capacity(self, operator, size, cl, failing) ==
    LET threshold == parse_size(size)
        pvs == ListVolumes(cl, "")
        matching_pvs ==
            SelectSeqBy(pvs, {pv \in SeqToSet(pvs) :
                                 CapacityMatches(operator, parse_size(pv.capacity), threshold)})
    IN  VolumeListing("PersistentVolumes where capacity",
                      <<"No", "PersistentVolumes", "found", "where", "capacity">>,
                      Text("Error retrieving persistent volumes by capacity", "", <<>>),
                      operator \o " " \o size, NamesWithCapacity(matching_pvs), failing)

\* PersistentVolumeResource.list_pvs_by_reclaim_policy(reclaim_policy)
list_pvs_by_reclaim_policy(self, reclaim_policy, cl, failing) ==
    LET pvs == ListVolumes(cl, "")
        matching_pvs == SelectSeqBy(pvs, {pv \in SeqToSet(pvs) :
                                             pv.persistent_volume_reclaim_policy = reclaim_policy})
    IN  VolumeListing("PersistentVolumes with reclaim policy",
                      <<"No", "PersistentVolumes", "found", "with", "reclaim", "policy">>,
                      Text("Error listing persistent volumes with reclaim policy",
                           reclaim_policy, <<>>),
                      reclaim_policy,
                      Names(matching_pvs), failing)

\* What a method that lists the claims of the namespace and keeps some of
\* them returns.
ClaimListing(found, none, error, arg, lines, failing) ==
    LET listing == Call("list_namespaced_persistent_volume_claim",
                        "list_namespaced_persistent_volume_claim" \notin failing)
    IN  IF ~listing.ok THEN Returned(Text(error, "", <<>>), <<listing>>)
        ELSE IF lines # <<>> THEN Returned(Text(found, arg, lines), <<listing>>)
        ELSE Returned(Sentence(none, arg), <<listing>>)

\* PersistentVolumeClaimResource.list_pvcs(): the names, joined by ", ".
list_pvcs(self, cl, failing) ==
    LET pvcs == ListNamespaced(cl.persistent_volume_claims, self.namespace, self.label_selector)
    IN  ClaimListing("", <<"No", "persistent", "volume", "claims", "found.">>,
                     "Error listing persistent volume claims", "",
                     Names(pvcs), failing)

\* PersistentVolumeClaimResource.list_pvcs_by_storage_class(storage_class_name)
list_pvcs_by_storage_class(self, storage_class_name, cl, failing) ==
    LET pvcs == ListNamespaced(cl.persistent_volume_claims, self.namespace, self.label_selector)
        pvcs_using_sc == SelectSeqBy(pvcs, {pvc \in SeqToSet(pvcs) :
                                               pvc.storage_class_name = storage_class_name})
    IN  ClaimListing("PVCs using storage class",
                     <<"No", "PVCs", "are", "using", "storage", "class">>,
                     "Error listing PVCs by storage class", storage_class_name,
                     Names(pvcs_using_sc), failing)

\* PersistentVolumeClaimResource.get_pvcs_larger_than(size): a claim without
\* a capacity (not bound yet) is passed over.
get_pvcs_larger_than(self, size, cl, failing) ==
    LET threshold == parse_size(size)
        pvcs == ListNamespaced(cl.persistent_volume_claims, self.namespace, self.label_selector)
        matching_pvcs ==
            SelectSeqBy(pvcs, {pvc \in SeqToSet(pvcs) :
                                  /\ Truthy(pvc.capacity)
                                  /\ Less(threshold, parse_size(pvc.capacity))})
    IN  ClaimListing("PVCs larger than", <<"No", "PVCs", "larger", "than">>,
                     "Error retrieving PVCs by size", size,
                     NamesWithCapacity(matching_pvcs), failing)

----------------------------------------------------------------------------
(* The query model *)

\* The filter fields the handlers read.
FilterFields ==
    { "status", "labels", "storage_class", "size", "operator", "reclaim_policy",
      "volume_mode", "secret_type", "reason", "event_type", "count",
      "involved_object_kind", "involved_object_name", "condition_type",
      "condition_status", "kernel_version", "subject_kind", "subject_name",
      "role_name", "verbs", "resources", "port", "volume_binding_mode",
      "allow_volume_expansion" }

\* A query that carries no filters object (query.filters is None).
NoFilters == [absent |-> TRUE]

\* A filters object: the fields of `set` hold a value, the others None.
Filters(set, status, labels) ==
    [f \in FilterFields |->
        IF f = "labels" THEN labels
        ELSE IF f = "status" THEN status
        ELSE IF f \in set THEN "x" ELSE None]

Query(category, type, action, namespace, name, filters) ==
    [resource_category |-> category, resource_type |-> type, action |-> action,
     namespace |-> namespace, specific_name |-> name, filters |-> filters]

\* `query.filters` as a condition.
HasFilters(q) == q.filters # NoFilters

\* `query.filters.labels if query.filters else None`
LabelsIfFilters(q) == IF HasFilters(q) THEN q.filters.labels ELSE NoLabels

----------------------------------------------------------------------------
(* Inspector methods and the handlers' elif chains *)

\* An inspector method this model does not open: the text it renders is named
\* by the method and its argument, its cluster API operations by one entry.
\* A variant of OperationsOf in which getting the logs of a pod deletes the
\* pod: C20 must not hold of it.
OperationsOf_deleting(method) ==
    IF method = "PodResource.get_logs" THEN << "delete_namespaced_pod" >>
    ELSE << "list_namespaced_pod" >>

\* The cluster API operations in the code of each method that the model
\* does not open, in the order of the code.
OperationsOf(method) ==
    CASE method \in { "ClusterRoleBindingResource.find_crbs_by_role",
                    "ClusterRoleBindingResource.find_crbs_by_subject",
                    "ClusterRoleBindingResource.find_crbs_without_subjects",
                    "ClusterRoleBindingResource.list_cluster_role_bindings" } ->
            << "list_cluster_role_binding" >>
      [] method \in { "ClusterRoleBindingResource.get_annotations",
                    "ClusterRoleBindingResource.get_crb_details",
                    "ClusterRoleBindingResource.get_role_ref",
                    "ClusterRoleBindingResource.get_subjects" } ->
            << "read_cluster_role_binding" >>
      [] method \in { "ClusterRoleResource.find_crs_by_permission",
                    "ClusterRoleResource.list_cluster_roles" } ->
            << "list_cluster_role" >>
      [] method \in { "ClusterRoleResource.get_annotations",
                    "ClusterRoleResource.get_cr_details" } ->
            << "read_cluster_role" >>
      [] method \in { "ConfigMapResource.get_annotations",
                    "ConfigMapResource.get_configmap_details", "ConfigMapResource.get_keys" } ->
            << "read_namespaced_config_map" >>
      [] method \in { "SecretResource.get_workloads_using_secrets_as_env" } ->
            << "list_namespaced_deployment", "list_namespaced_stateful_set",
               "list_namespaced_daemon_set", "list_namespaced_pod" >>
      [] method \in { "CronJobResource.get_cronjob_status",
                    "CronJobResource.get_last_scheduled_run",
                    "CronJobResource.get_next_scheduled_run" } ->
            << "read_namespaced_cron_job" >>
      [] method \in { "CronJobResource.get_pods_for_cronjob" } ->
            << "read_namespaced_cron_job", "list_namespaced_job", "list_namespaced_pod" >>
      [] method \in { "CronJobResource.list_cronjobs" } ->
            << "list_namespaced_cron_job" >>
      [] method \in { "DaemonSetResource.get_daemonset_status",
                    "DaemonSetResource.get_node_affinity" } ->
            << "read_namespaced_daemon_set" >>
      [] method \in { "DaemonSetResource.get_pods_for_daemonset" } ->
            << "read_namespaced_daemon_set", "list_namespaced_pod" >>
      [] method \in { "DaemonSetResource.list_daemonsets" } ->
            << "list_namespaced_daemon_set" >>
      [] method \in { "DeploymentResource.exists", "DeploymentResource.get_count" } ->
            << "list_namespaced_deployment" >>
      [] method \in { "DeploymentResource.get_creation_time", "DeploymentResource.get_status" } ->
            << "read_namespaced_deployment" >>
      [] method \in { "IngressClassResource.get_annotations",
                    "IngressClassResource.get_controller",
                    "IngressClassResource.get_ingress_class_details",
                    "IngressClassResource.get_parameters" } ->
            << "read_ingress_class" >>
      [] method \in { "IngressClassResource.list_ingress_classes" } ->
            << "list_ingress_class" >>
      [] method \in { "IngressResource.get_annotations",
                    "IngressResource.get_backend_services", "IngressResource.get_hostnames",
                    "IngressResource.get_ingress_details",
                    "IngressResource.get_ingress_rules",
                    "IngressResource.get_tls_configuration" } ->
            << "read_namespaced_ingress" >>
      [] method \in { "IngressResource.get_ingress_status" } ->
            << "read_namespaced_ingress_status" >>
      [] method \in { "IngressResource.list_ingresses" } ->
            << "list_namespaced_ingress" >>
      [] method \in { "NamespaceResource.find_empty_namespaces" } ->
            << "list_namespace", "list_namespaced_pod", "list_namespaced_deployment",
               "list_namespaced_stateful_set", "list_namespaced_daemon_set",
               "list_namespaced_job" >>
      [] method \in { "NamespaceResource.find_namespaces_with_label",
                    "NamespaceResource.find_terminating_namespaces",
                    "NamespaceResource.list_namespaces" } ->
            << "list_namespace" >>
      [] method \in { "NamespaceResource.get_annotations",
                    "NamespaceResource.get_namespace_details",
                    "NamespaceResource.get_namespace_status" } ->
            << "read_namespace" >>
      [] method \in { "NamespaceResource.get_namespace_events" } ->
            << "list_namespaced_event" >>
      [] method \in { "NamespaceResource.get_network_policies",
                    "NetworkPolicyResource.list_network_policies",
                    "NetworkPolicyResource.list_policies_by_ingress_rule" } ->
            << "list_namespaced_network_policy" >>
      [] method \in { "NamespaceResource.get_resource_quotas" } ->
            << "list_namespaced_resource_quota" >>
      [] method \in { "NamespaceResource.get_resources_in_namespace" } ->
            << "list_namespaced_pod", "list_namespaced_service",
               "list_namespaced_deployment", "list_namespaced_stateful_set",
               "list_namespaced_daemon_set", "list_namespaced_job",
               "list_namespaced_cron_job", "list_namespaced_network_policy" >>
      [] method \in { "NetworkPolicyResource.find_policies_affecting_pod" } ->
            << "read_namespaced_pod", "list_namespaced_network_policy" >>
      [] method \in { "NetworkPolicyResource.get_annotations",
                    "NetworkPolicyResource.get_network_policy_details" } ->
            << "read_namespaced_network_policy" >>
      [] method \in { "NetworkPolicyResource.get_pods_affected_by_policy" } ->
            << "read_namespaced_network_policy", "list_namespaced_pod" >>
      [] method \in { "NodeResource.get_allocatable_resources",
                    "NodeResource.get_node_annotations", "NodeResource.get_node_details",
                    "NodeResource.get_node_kubelet_version", "NodeResource.get_node_status",
                    "NodeResource.get_node_taints" } ->
            << "read_node" >>
      [] method \in { "NodeResource.get_pods_on_node" } ->
            << "list_pod_for_all_namespaces" >>
      [] method \in { "NodeResource.list_nodes", "NodeResource.list_nodes_by_kernel_version",
                    "NodeResource.list_nodes_with_condition",
                    "NodeResource.list_nodes_with_label", "NodeResource.list_ready_nodes" } ->
            << "list_node" >>
      [] method \in { "PersistentVolumeClaimResource.get_access_modes",
                    "PersistentVolumeClaimResource.get_annotations",
                    "PersistentVolumeClaimResource.get_bound_pv",
                    "PersistentVolumeClaimResource.get_capacity",
                    "PersistentVolumeClaimResource.get_pvc_details",
                    "PersistentVolumeClaimResource.get_pvc_status",
                    "PersistentVolumeClaimResource.get_storage_class" } ->
            << "read_namespaced_persistent_volume_claim" >>
      [] method \in { "PersistentVolumeResource.find_pvs_by_status",
                    "PersistentVolumeResource.list_pvs_bound_to_pvcs",
                    "PersistentVolumeResource.list_pvs_by_volume_mode" } ->
            << "list_persistent_volume" >>
      [] method \in { "PersistentVolumeResource.get_pv_access_modes",
                    "PersistentVolumeResource.get_pv_annotations",
                    "PersistentVolumeResource.get_pv_capacity",
                    "PersistentVolumeResource.get_pv_details",
                    "PersistentVolumeResource.get_pv_status",
                    "PersistentVolumeResource.get_pv_storage_class",
                    "PersistentVolumeResource.get_pvc_using_pv" } ->
            << "read_persistent_volume" >>
      [] method \in { "PodResource.get_count", "PodResource.list_pods",
                    "SecretResource.get_image_pull_secrets" } ->
            << "list_namespaced_pod" >>
      [] method \in { "PodResource.get_creation_time", "PodResource.get_status" } ->
            << "read_namespaced_pod" >>
      [] method \in { "PodResource.get_logs" } ->
            << "read_namespaced_pod_log" >>
      [] method \in { "ReplicaSetResource.get_pods_for_deployment" } ->
            << "read_namespaced_deployment", "list_namespaced_replica_set",
               "list_namespaced_pod" >>
      [] method \in { "RoleBindingResource.find_rbs_by_role",
                    "RoleBindingResource.find_rbs_by_subject",
                    "RoleBindingResource.list_role_bindings" } ->
            << "list_namespaced_role_binding" >>
      [] method \in { "RoleBindingResource.get_annotations",
                    "RoleBindingResource.get_rb_details", "RoleBindingResource.get_role_ref",
                    "RoleBindingResource.get_subjects" } ->
            << "read_namespaced_role_binding" >>
      [] method \in { "RoleResource.find_roles_by_permission", "RoleResource.list_roles" } ->
            << "list_namespaced_role" >>
      [] method \in { "RoleResource.get_annotations", "RoleResource.get_role_details" } ->
            << "read_namespaced_role" >>
      [] method \in { "SecretResource.get_annotations", "SecretResource.get_keys",
                    "SecretResource.get_secret_details", "SecretResource.get_secret_type" } ->
            << "read_namespaced_secret" >>
      [] method \in { "SecretResource.list_secrets", "SecretResource.list_secrets_by_type" } ->
            << "list_namespaced_secret" >>
      [] method \in { "ServiceResource.get_annotations", "ServiceResource.get_cluster_ip",
                    "ServiceResource.get_selectors", "ServiceResource.get_service_details",
                    "ServiceResource.get_service_ports", "ServiceResource.get_service_type" } ->
            << "read_namespaced_service" >>
      [] method \in { "ServiceResource.get_endpoints" } ->
            << "read_namespaced_endpoints" >>
      [] method \in { "ServiceResource.list_services" } ->
            << "list_namespaced_service" >>
      [] method \in { "StatefulSetResource.get_pods_for_statefulset" } ->
            << "read_namespaced_stateful_set", "list_namespaced_pod" >>
      [] method \in { "StatefulSetResource.get_statefulset_status",
                    "StatefulSetResource.get_volume_claims" } ->
            << "read_namespaced_stateful_set" >>
      [] method \in { "StatefulSetResource.list_statefulsets" } ->
            << "list_namespaced_stateful_set" >>

\* A method the model does not open, called: its name and argument stand for
\* its answer, and it makes its operations, each with success.
Inspect(method, arg, operations) ==
    Returned(Text(method, arg, <<>>),
             [i \in DOMAIN operations |-> Call(operations[i], TRUE)])

\* The methods of EventResource, each of which lists the events of
\* self.namespace `if self.namespace:` and of every namespace otherwise.
EventMethods ==
    { "EventResource.list_events", "EventResource.list_events_by_reason",
      "EventResource.list_events_by_type", "EventResource.list_events_for_object",
      "EventResource.list_recent_events" }

\* Each call with the namespace of the inspector that made it (self.namespace,
\* which its namespaced operations are given).
InNamespace(namespace, outcome) ==
    [outcome EXCEPT !.calls = [i \in DOMAIN outcome.calls |->
                                  [op |-> outcome.calls[i].op, ok |-> outcome.calls[i].ok,
                                   namespace |-> namespace]]]

\* The first cluster API operation of a method of an inspector that takes
\* its namespace from the query; operations are those of a method the model
\* does not open.
FirstOperation(method, operations) ==
    CASE method \in { "ConfigMapResource.list_configmaps",
                      "ConfigMapResource.get_unused_configmaps" } ->
            "list_namespaced_config_map"
      [] method = "SecretResource.get_unused_secrets" -> "list_namespaced_secret"
      [] method = "SecretResource.get_image_pull_secrets" -> "list_namespaced_pod"
      [] method \in { "ConfigMapResource.get_workloads_using_configmap",
                      "SecretResource.get_workloads_using_secret",
                      "PersistentVolumeClaimResource.get_workloads_using_pvc",
                      "DeploymentResource.list_deployments" } ->
            "list_namespaced_deployment"
      [] method \in { "PersistentVolumeClaimResource.list_pvcs",
                      "PersistentVolumeClaimResource.list_pvcs_by_storage_class",
                      "PersistentVolumeClaimResource.get_pvcs_larger_than" } ->
            "list_namespaced_persistent_volume_claim"
      [] OTHER -> operations[1]

\* A method called on an inspector whose namespace is None: its first
\* operation is given namespace=None, which the client rejects before any
\* request with an ApiValueError.  `except client.ApiException` does not
\* catch it; the `except Exception` of get_pvcs_larger_than does.
Rejected(method, operations) ==
    IF method = "PersistentVolumeClaimResource.get_pvcs_larger_than"
    THEN Returned(Text("Error retrieving PVCs by size", "", <<>>),
                  << Call(FirstOperation(method, operations), FALSE) >>)
    ELSE Raised("ApiValueError", << Call(FirstOperation(method, operations), FALSE) >>)

\* A method the model does not open, called on an inspector: a method of
\* EventResource lists the events of self.namespace `if self.namespace:`
\* and of every namespace otherwise.
InspectIn(self, method, arg, operations) ==
    IF method \in EventMethods
    THEN Returned(Text(method, arg, <<>>),
                  << Call(IF Truthy(self.namespace) THEN "list_namespaced_event"
                          ELSE "list_event_for_all_namespaces", TRUE) >>)
    ELSE Inspect(method, arg, operations)

\* A call of a method on an inspector, given the operations the method makes.
Called(self, method, arg, operations) ==
    InNamespace(self.namespace,
                IF self.namespace = None /\ method \notin EventMethods
                THEN Rejected(method, operations)
                ELSE InspectIn(self, method, arg, operations))

\* A call of a method the model does not open.
Method(self, method, arg) == Called(self, method, arg, OperationsOf(method))

\* The inspector methods the model opens, by name; operations are those of
\* a method it does not open.
Invoke(method, operations, self, q, cl, failing) ==
    CASE method = "ConfigMapResource.list_configmaps" -> list_configmaps(self, cl, failing)
      [] method = "ConfigMapResource.get_workloads_using_configmap" ->
            get_workloads_using_configmap(self, q.specific_name, cl, failing)
      [] method = "ConfigMapResource.get_unused_configmaps" ->
            get_unused_configmaps(self, cl, failing)
      [] method = "SecretResource.get_workloads_using_secret" ->
            get_workloads_using_secret(self, q.specific_name, cl, failing)
      [] method = "SecretResource.get_unused_secrets" ->
            get_unused_secrets(self, cl, failing)
      [] method = "SecretResource.get_image_pull_secrets" ->
            get_image_pull_secrets(self, hash_order, cl, failing)
      [] method = "PersistentVolumeClaimResource.get_workloads_using_pvc" ->
            get_workloads_using_pvc(self, q.specific_name, cl, failing)
      [] method = "PersistentVolumeClaimResource.list_pvcs" -> list_pvcs(self, cl, failing)
      [] method = "PersistentVolumeClaimResource.list_pvcs_by_storage_class" ->
            list_pvcs_by_storage_class(self, q.filters.storage_class, cl, failing)
      [] method = "PersistentVolumeClaimResource.get_pvcs_larger_than" ->
            get_pvcs_larger_than(self, q.filters.size, cl, failing)
      [] method = "PersistentVolumeResource.list_persistent_volumes" ->
            list_persistent_volumes(self, cl, failing)
      [] method = "PersistentVolumeResource.find_pvs_by_storage_class" ->
            find_pvs_by_storage_class(self, q.filters.storage_class, cl, failing)
      [] method = "PersistentVolumeResource.list_pvs_by_capacity" ->
            list_pvs_by_capacity(self, q.filters.operator, q.filters.size, cl, failing)
      [] method = "PersistentVolumeResource.list_pvs_by_reclaim_policy" ->
            list_pvs_by_reclaim_policy(self, q.filters.reclaim_policy, cl, failing)
      [] OTHER -> InspectIn(self, method, q.specific_name, operations)

\* One (el)if of a handler: `query.action == action`, then
\* `and query.specific_name` when name, then a truth test of each of the
\* filter fields, behind `query.filters and` when guarded.
Branch(action, name, fields, guarded, method) ==
    [action |-> action, name |-> name, fields |-> fields, guarded |-> guarded,
     method |-> method]

On(action, method) == Branch(action, FALSE, {}, TRUE, method)
OnNamed(action, method) == Branch(action, TRUE, {}, TRUE, method)
OnFilter(action, fields, method) == Branch(action, FALSE, fields, TRUE, method)
OnFilterUnguarded(action, fields, method) == Branch(action, FALSE, fields, FALSE, method)

\* The value of a filter field as a condition: `is not None` for
\* allow_volume_expansion, the length for labels, bool() for the others.
\* The int of the count field is kept as its decimal numeral, bool(0) False.
FieldSet(q, f) ==
    IF f = "labels" THEN q.filters.labels.kind # "None" /\ q.filters.labels.entries # <<>>
    ELSE IF f = "allow_volume_expansion" THEN q.filters[f] # None
    ELSE IF f = "count" THEN Truthy(q.filters[f]) /\ q.filters[f] # "0"
    ELSE Truthy(q.filters[f])

\* Where an if/elif chain of a handler ends up: at the method of the first
\* branch whose condition holds, at the final else, or at the AttributeError
\* of a branch that reads a field of query.filters, without testing
\* query.filters first, when there is none.
Else == "<else>"
AttributeError == "<AttributeError>"

\* The condition of a branch: TRUE, FALSE, or AttributeError.
Taken(b, q) ==
    IF q.action # b.action THEN "no"
    ELSE IF b.name /\ ~Truthy(q.specific_name) THEN "no"
    ELSE IF b.fields # {} /\ ~HasFilters(q)
    THEN IF b.guarded THEN "no" ELSE AttributeError
    ELSE IF \A f \in b.fields : FieldSet(q, f) THEN "yes" ELSE "no"

RECURSIVE Route(_, _)
Route(branches, q) ==
    IF branches = <<>> THEN Else
    ELSE IF Taken(Head(branches), q) = "no" THEN Route(Tail(branches), q)
    ELSE IF Taken(Head(branches), q) = "yes" THEN Head(branches).method
    ELSE AttributeError

\* What a handler returns, given where its chain ended up and what the method
\* there returns.
Answer(route, unsupported, served) ==
    IF route = AttributeError THEN Raised("AttributeError", <<>>)
    ELSE IF route = Else THEN Returned(Text(unsupported, "", <<>>), <<>>)
    ELSE served

\* A handler of an inspector whose methods the model does not open:
\* construct the inspector, then route.
Served(self, route, unsupported, q) ==
    IF self.raised # None THEN Raised(self.raised, <<>>)
    ELSE Answer(route, unsupported, Method(self, route, q.specific_name))

Handler(self, branches, unsupported, q, cl, failing) ==
    Served(self, Route(branches, q), unsupported, q)

\* A handler of an inspector some of whose methods the model opens.
Resolved(self, route, operations, unsupported, q, cl, failing) ==
    IF self.raised # None THEN Raised(self.raised, <<>>)
    ELSE Answer(route, unsupported,
                InNamespace(self.namespace,
                            IF self.namespace = None /\ route \notin EventMethods
                            THEN Rejected(route, operations)
                            ELSE Invoke(route, operations, self, q, cl, failing)))

ResolverHandler(self, branches, unsupported, q, cl, failing) ==
    Resolved(self, Route(branches, q), OperationsOf(Route(branches, q)), unsupported,
             q, cl, failing)

----------------------------------------------------------------------------
(* EventResource *)

\* `event.last_timestamp or event.event_time or event.metadata.creation_timestamp`
\* of an event whose optional timestamps have no element for None.
Timestamp(event) ==
    IF event.last_timestamp # <<>> THEN event.last_timestamp[1]
    ELSE IF event.event_time # <<>> THEN event.event_time[1]
    ELSE event.creation_timestamp

\* The int a count numeral stands for.
CountValue(count) ==
    CASE count = "-1" -> -1
      [] count = "0" -> 0
      [] count = "1" -> 1
      [] count = "2" -> 2
      [] count = "3" -> 3
      [] count = "4" -> 4

RECURSIVE InsertByTimestamp(_, _)
\* The event put behind the events of the sorted list that are not older.
InsertByTimestamp(sorted, event) ==
    IF sorted = <<>> THEN << event >>
    ELSE IF Timestamp(Head(sorted)) >= Timestamp(event)
         THEN << Head(sorted) >> \o InsertByTimestamp(Tail(sorted), event)
         ELSE << event >> \o sorted

\* A variant of the sort that leaves the items as they are: C27 must not
\* hold of it.
sort_by_timestamp_unsorted(items) == items

RECURSIVE sort_by_timestamp(_)
\* events.items.sort(key=<Timestamp>, reverse=True): latest first, events of
\* one timestamp in the order they had (the sort is stable).
sort_by_timestamp(items) ==
    IF items = <<>> THEN <<>>
    ELSE InsertByTimestamp(sort_by_timestamp(SubSeq(items, 1, Len(items) - 1)),
                           items[Len(items)])

\* items[:count] of Python: the first count items, or all but the last
\* -count of them when count is negative.
SliceTo(items, count) ==
    IF count >= 0
    THEN SubSeq(items, 1, IF count < Len(items) THEN count ELSE Len(items))
    ELSE SubSeq(items, 1, Len(items) + count)

\* The line of an event: its timestamp and, for the words after it (type,
\* reason, involved object, message), its name.
EventLines(events) == [i \in DOMAIN events |-> << Timestamp(events[i]), events[i].name >>]

\* list_namespaced_event(namespace) `if self.namespace`, else
\* list_event_for_all_namespaces().
ListEvents(self, cl) ==
    IF Truthy(self.namespace) THEN ListNamespaced(cl.events, self.namespace, "")
    ELSE cl.events

EventsOperation(self) ==
    IF Truthy(self.namespace) THEN "list_namespaced_event" ELSE "list_event_for_all_namespaces"

\* The answers of the two listings, given the events listed and the events
\* to show.
EventListing(found, error, arg, items, shown, operation, failing) ==
    IF operation \in failing
    THEN Returned(Text(error, "", <<>>), << Call(operation, FALSE) >>)
    ELSE IF items = <<>>
    THEN Returned(Text("No events found.", "", <<>>), << Call(operation, TRUE) >>)
    ELSE Returned(Text(found, arg, EventLines(shown)), << Call(operation, TRUE) >>)

\* EventResource.list_events()
list_events(self, cl, failing) ==
    EventListing("", "Error listing events", "", ListEvents(self, cl), ListEvents(self, cl),
                 EventsOperation(self), failing)

\* The events list_recent_events keeps of those listed.
RecentEvents(items, count) ==
    IF items = <<>> THEN <<>> ELSE SliceTo(sort_by_timestamp(items), CountValue(count))

\* EventResource.list_recent_events(count)
list_recent_events(self, count, cl, failing) ==
    IF EventsOperation(self) \notin failing /\ ListEvents(self, cl) # <<>>
       /\ count \notin {"-1", "0", "1", "2", "3", "4"}
    THEN Raised("TypeError", << Call(EventsOperation(self), TRUE) >>)
    ELSE EventListing("Most recent events:", "Error retrieving recent events", count,
                      ListEvents(self, cl), RecentEvents(ListEvents(self, cl), count),
                      EventsOperation(self), failing)

----------------------------------------------------------------------------
(* The workload handlers *)

\* `x or 0` of an Optional[int], here no element for None and one for an int.
OrZero(x) == IF x = <<>> THEN 0 ELSE x[1]

\* f"{simple_name} (Replicas: {available_replicas}/{total_replicas})" of each.
ReplicaLines(deployments) ==
    [i \in DOMAIN deployments |->
        << deployments[i].name \o " (Replicas: "
           \o ToString(OrZero(deployments[i].available_replicas))
           \o "/" \o ToString(OrZero(deployments[i].replicas)) \o ")" >>]

\* A variant of list_deployments that passes over no deployment, whatever
\* the status filter: C18 must not hold of it.
list_deployments_unfiltered(self, status_filter, cl, failing) ==
    LET deployments == ListNamespaced(cl.deployments, self.namespace, self.label_selector)
    IN  Returned(Text("", "", ReplicaLines(deployments)),
                 << Call("list_namespaced_deployment", TRUE) >>)

\* A variant of list_deployments that lists once more when the listing has
\* failed: C22 must not hold of it.
list_deployments_retrying(self, status_filter, cl, failing) ==
    IF "list_namespaced_deployment" \in failing
    THEN Returned(Text("Error listing deployments", "", <<>>),
                  << Call("list_namespaced_deployment", FALSE),
                     Call("list_namespaced_deployment", FALSE) >>)
    ELSE list_deployments_unfiltered(self, status_filter, cl, failing)

\* DeploymentResource.list_deployments(status_filter): each deployment kept
\* gives "name (Replicas: available/total)", and they are joined by ", "
\* (here one line each under no fixed words).
list_deployments(self, status_filter, cl, failing) ==
    LET listing == Call("list_namespaced_deployment", "list_namespaced_deployment" \notin failing)
        deployments == ListNamespaced(cl.deployments, self.namespace, self.label_selector)
        kept == SelectSeqBy(deployments,
                    {d \in SeqToSet(deployments) :
                        /\ ~(status_filter = "active" /\ OrZero(d.available_replicas) = 0)
                        /\ ~(status_filter = "terminated" /\ OrZero(d.available_replicas) > 0)})
        filtered_deployments == ReplicaLines(kept)
    IN  IF ~listing.ok THEN Returned(Text("Error listing deployments", "", <<>>), <<listing>>)
        ELSE IF deployments = <<>>
        THEN Returned(Sentence(<<"No", "deployments", "found.">>, ""), <<listing>>)
        ELSE IF filtered_deployments = <<>>
        THEN Returned(Sentence(<<"No", status_filter, "deployments", "found.">>, ""),
                      <<listing>>)
        ELSE Returned(Text("", "", filtered_deployments), <<listing>>)

\* `query.namespace or "default"`
NamespaceOrDefault(q) == IF Truthy(q.namespace) THEN q.namespace ELSE "default"

\* The if/elif chain on a DeploymentResource, which deployment_handler and
\* handle_query both hold.
deployment_route(q) ==
    IF q.action = "count" THEN "DeploymentResource.get_count"
    ELSE IF q.action = "status" /\ Truthy(q.specific_name)
    THEN "DeploymentResource.get_status"
    ELSE IF q.action = "creation_time" /\ Truthy(q.specific_name)
    THEN "DeploymentResource.get_creation_time"
    ELSE IF q.action = "exists" THEN "DeploymentResource.exists"
    ELSE IF q.action = "list" THEN "DeploymentResource.list_deployments"
    ELSE Else

\* The argument a method of the chains is called with.
NameIfNamed(q) == IF q.action \in {"count", "exists"} THEN "" ELSE q.specific_name

\* What the chain answers, given the inspector constructed and the branch
\* taken: the list branch evaluates len(query.filters.status).
deployment_answer(deployment_resource, route, q, cl, failing) ==
    IF deployment_resource.raised # None THEN Raised(deployment_resource.raised, <<>>)
    ELSE IF route = Else
    THEN Returned(Text("Unsupported action or missing required parameters.", "", <<>>), <<>>)
    ELSE IF route # "DeploymentResource.list_deployments"
    THEN Method(deployment_resource, route, NameIfNamed(q))
    ELSE IF q.filters.status = None THEN Raised("TypeError", <<>>)
    ELSE InNamespace(deployment_resource.namespace,
                     IF deployment_resource.namespace = None
                     THEN Rejected("DeploymentResource.list_deployments", <<>>)
                     ELSE list_deployments(
                              deployment_resource,
                              IF q.filters.status # "" THEN q.filters.status ELSE "all",
                              cl, failing))

\* The if/elif chain of handle_query on a PodResource.
pod_route(q) ==
    IF q.action = "count" THEN "PodResource.get_count"
    ELSE IF q.action = "status" /\ Truthy(q.specific_name) THEN "PodResource.get_status"
    ELSE IF q.action = "creation_time" /\ Truthy(q.specific_name)
    THEN "PodResource.get_creation_time"
    ELSE IF q.action = "details" /\ Truthy(q.specific_name) THEN "PodResource.get_logs"
    ELSE IF q.action = "list" THEN "PodResource.list_pods"
    ELSE Else

pod_answer(pod_resource, route, q) ==
    IF pod_resource.raised # None THEN Raised(pod_resource.raised, <<>>)
    ELSE IF route = Else
    THEN Returned(Text("Unsupported action or missing required parameters for pod.",
                       "", <<>>), <<>>)
    ELSE IF route = "PodResource.list_pods" /\ q.filters.status = None
    THEN Raised("TypeError", <<>>)
    ELSE Method(pod_resource, route,
                IF route # "PodResource.list_pods" THEN NameIfNamed(q)
                ELSE IF q.filters.status # "" THEN q.filters.status ELSE "all")

\* deployment_handler(query).  The constructor's argument reads
\* query.filters.labels and the list branch len(query.filters.status), neither
\* behind a test of query.filters or of the status.
deployment_handler(q, cl, failing) ==
    IF ~HasFilters(q) THEN Raised("AttributeError", <<>>)
    ELSE deployment_answer(KubernetesBase(q.namespace, q.filters.labels, failing),
                           deployment_route(q), q, cl, failing)

\* cronjob_handler(query)
cronjob_handler(q, cl, failing) ==
    Handler(KubernetesBase(q.namespace, NoLabels, failing),
            << On("list", "CronJobResource.list_cronjobs"),
               OnNamed("status", "CronJobResource.get_cronjob_status"),
               OnNamed("next_run", "CronJobResource.get_next_scheduled_run"),
               OnNamed("last_run", "CronJobResource.get_last_scheduled_run"),
               OnNamed("pods", "CronJobResource.get_pods_for_cronjob") >>,
            "Unsupported action or missing required parameters for cronjob.",
            q, cl, failing)

\* daemonset_handler(query)
daemonset_handler(q, cl, failing) ==
    Handler(KubernetesBase(q.namespace, NoLabels, failing),
            << On("list", "DaemonSetResource.list_daemonsets"),
               OnNamed("status", "DaemonSetResource.get_daemonset_status"),
               OnNamed("pods", "DaemonSetResource.get_pods_for_daemonset"),
               OnNamed("node_affinity", "DaemonSetResource.get_node_affinity") >>,
            "Unsupported action or missing required parameters for daemonset.",
            q, cl, failing)

\* replicaset_handler(query)
replicaset_handler(q, cl, failing) ==
    Handler(KubernetesBase(q.namespace, NoLabels, failing),
            << OnNamed("pods", "ReplicaSetResource.get_pods_for_deployment") >>,
            "Unsupported action or missing required parameters for replicaset.",
            q, cl, failing)

\* statefulset_handler(query)
statefulset_handler(q, cl, failing) ==
    Handler(KubernetesBase(q.namespace, NoLabels, failing),
            << On("list", "StatefulSetResource.list_statefulsets"),
               OnNamed("status", "StatefulSetResource.get_statefulset_status"),
               OnNamed("pods", "StatefulSetResource.get_pods_for_statefulset"),
               OnNamed("volume_claims", "StatefulSetResource.get_volume_claims") >>,
            "Unsupported action or missing required parameters for statefulset.",
            q, cl, failing)

\* A name a package's __init__ imports from a module that does not define it
\* (pod_handler, job_handler, storage_class_handler): the import raises.
MissingHandler == Raised("ImportError", <<>>)

\* workload_handler(query)
workload_handler(q, cl, failing) ==
    IF q.resource_type = "deployment" THEN deployment_handler(q, cl, failing)
    ELSE IF q.resource_type = "pod" THEN MissingHandler
    ELSE IF q.resource_type = "cronjob" THEN cronjob_handler(q, cl, failing)
    ELSE IF q.resource_type = "daemonset" THEN daemonset_handler(q, cl, failing)
    ELSE IF q.resource_type = "job" THEN MissingHandler
    ELSE IF q.resource_type = "replicaset" THEN replicaset_handler(q, cl, failing)
    ELSE IF q.resource_type = "statefulset" THEN statefulset_handler(q, cl, failing)
    ELSE Returned(Text("Unknown Resource Type", "", <<>>), <<>>)

----------------------------------------------------------------------------
(* The services handlers *)

\* ingress_handler(query)
ingress_handler(q, cl, failing) ==
    Handler(KubernetesBase(q.namespace, NoLabels, failing),
            << On("list", "IngressResource.list_ingresses"),
               OnNamed("details", "IngressResource.get_ingress_details"),
               OnNamed("backend_services", "IngressResource.get_backend_services"),
               OnNamed("hostnames", "IngressResource.get_hostnames"),
               OnNamed("tls", "IngressResource.get_tls_configuration"),
               OnNamed("rules", "IngressResource.get_ingress_rules"),
               OnNamed("status", "IngressResource.get_ingress_status"),
               OnNamed("annotations", "IngressResource.get_annotations") >>,
            "Unsupported action or missing required parameters for ingress.",
            q, cl, failing)

\* ingress_class_handler(query)
ingress_class_handler(q, cl, failing) ==
    Handler(KubernetesBase("default", NoLabels, failing),
            << On("list", "IngressClassResource.list_ingress_classes"),
               OnNamed("details", "IngressClassResource.get_ingress_class_details"),
               OnNamed("controller", "IngressClassResource.get_controller"),
               OnNamed("parameters", "IngressClassResource.get_parameters"),
               OnNamed("annotations", "IngressClassResource.get_annotations") >>,
            "Unsupported action or missing required parameters for ingress class.",
            q, cl, failing)

\* service_resource_handler(query)
service_resource_handler(q, cl, failing) ==
    Handler(KubernetesBase(q.namespace, LabelsIfFilters(q), failing),
            << On("list", "ServiceResource.list_services"),
               OnNamed("details", "ServiceResource.get_service_details"),
               OnNamed("type", "ServiceResource.get_service_type"),
               OnNamed("cluster_ip", "ServiceResource.get_cluster_ip"),
               OnNamed("ports", "ServiceResource.get_service_ports"),
               OnNamed("selectors", "ServiceResource.get_selectors"),
               OnNamed("annotations", "ServiceResource.get_annotations"),
               OnNamed("endpoints", "ServiceResource.get_endpoints") >>,
            "Unsupported action or missing required parameters for service.",
            q, cl, failing)

\* service_handler(query)
service_handler(q, cl, failing) ==
    IF q.resource_type = "ingress" THEN ingress_handler(q, cl, failing)
    ELSE IF q.resource_type = "ingress_class" THEN ingress_class_handler(q, cl, failing)
    ELSE IF q.resource_type = "service" THEN service_resource_handler(q, cl, failing)
    ELSE Returned(Text("Unknown Resource Type", "", <<>>), <<>>)

----------------------------------------------------------------------------
(* The config_storage handlers *)

\* config_maps_hamdler(query)
config_maps_hamdler(q, cl, failing) ==
    ResolverHandler(KubernetesBase(q.namespace, LabelsIfFilters(q), failing),
                    << On("list", "ConfigMapResource.list_configmaps"),
                       OnNamed("details", "ConfigMapResource.get_configmap_details"),
                       OnNamed("keys", "ConfigMapResource.get_keys"),
                       OnNamed("used_by", "ConfigMapResource.get_workloads_using_configmap"),
                       OnNamed("annotations", "ConfigMapResource.get_annotations"),
                       On("unused", "ConfigMapResource.get_unused_configmaps") >>,
                    "Unsupported action or missing required parameters for configmap.",
                    q, cl, failing)

\* pv_handler(query) of config_storage/persistent_volume.py
pvc_handler(q, cl, failing) ==
    ResolverHandler(KubernetesBase(q.namespace, LabelsIfFilters(q), failing),
                    << OnFilter("list", {"storage_class"},
                                "PersistentVolumeClaimResource.list_pvcs_by_storage_class"),
                       OnFilter("list", {"size"}, "PersistentVolumeClaimResource.get_pvcs_larger_than"),
                       On("list", "PersistentVolumeClaimResource.list_pvcs"),
                       OnNamed("details", "PersistentVolumeClaimResource.get_pvc_details"),
                       OnNamed("status", "PersistentVolumeClaimResource.get_pvc_status"),
                       OnNamed("used_by", "PersistentVolumeClaimResource.get_workloads_using_pvc"),
                       OnNamed("storage_class", "PersistentVolumeClaimResource.get_storage_class"),
                       OnNamed("capacity", "PersistentVolumeClaimResource.get_capacity"),
                       OnNamed("access_modes", "PersistentVolumeClaimResource.get_access_modes"),
                       OnNamed("bound_pv", "PersistentVolumeClaimResource.get_bound_pv"),
                       OnNamed("annotations", "PersistentVolumeClaimResource.get_annotations") >>,
                    "Unsupported action or missing required parameters for persistent volume claim.",
                    q, cl, failing)

\* secrets_handler(query)
secrets_handler(q, cl, failing) ==
    ResolverHandler(KubernetesBase(q.namespace, LabelsIfFilters(q), failing),
                    << OnFilter("list", {"secret_type"}, "SecretResource.list_secrets_by_type"),
                       On("list", "SecretResource.list_secrets"),
                       OnNamed("details", "SecretResource.get_secret_details"),
                       OnNamed("type", "SecretResource.get_secret_type"),
                       OnNamed("keys", "SecretResource.get_keys"),
                       OnNamed("used_by", "SecretResource.get_workloads_using_secret"),
                       OnNamed("annotations", "SecretResource.get_annotations"),
                       On("unused", "SecretResource.get_unused_secrets"),
                       On("image_pull_secrets", "SecretResource.get_image_pull_secrets"),
                       On("used_as_env", "SecretResource.get_workloads_using_secrets_as_env") >>,
                    "Unsupported action or missing required parameters for secret.",
                    q, cl, failing)

\* config_storage_handler(query)
config_storage_handler(q, cl, failing) ==
    IF q.resource_type = "config_maps" THEN config_maps_hamdler(q, cl, failing)
    ELSE IF q.resource_type = "pv" THEN pvc_handler(q, cl, failing)
    ELSE IF q.resource_type = "secrets" THEN secrets_handler(q, cl, failing)
    ELSE IF q.resource_type = "storage_class" THEN MissingHandler
    ELSE Returned(Text("Unknown Resource Type", "", <<>>), <<>>)

----------------------------------------------------------------------------
(* The cluster handlers *)

\* crb_handler(query)
crb_handler(q, cl, failing) ==
    Handler(KubernetesBase("default", LabelsIfFilters(q), failing),
            << On("list", "ClusterRoleBindingResource.list_cluster_role_bindings"),
               OnNamed("details", "ClusterRoleBindingResource.get_crb_details"),
               OnNamed("subjects", "ClusterRoleBindingResource.get_subjects"),
               OnNamed("role_ref", "ClusterRoleBindingResource.get_role_ref"),
               OnFilterUnguarded("find_by_subject", {"subject_kind", "subject_name"},
                                 "ClusterRoleBindingResource.find_crbs_by_subject"),
               OnFilterUnguarded("find_by_role", {"role_name"},
                                 "ClusterRoleBindingResource.find_crbs_by_role"),
               OnNamed("annotations", "ClusterRoleBindingResource.get_annotations"),
               On("find_without_subjects",
                  "ClusterRoleBindingResource.find_crbs_without_subjects") >>,
            "Unsupported action or missing required parameters for cluster role binding.",
            q, cl, failing)

\* cr_handler(query)
cr_handler(q, cl, failing) ==
    Handler(KubernetesBase("default", LabelsIfFilters(q), failing),
            << On("list", "ClusterRoleResource.list_cluster_roles"),
               OnNamed("details", "ClusterRoleResource.get_cr_details"),
               OnFilterUnguarded("find_by_permission", {"verbs", "resources"},
                                 "ClusterRoleResource.find_crs_by_permission"),
               OnNamed("annotations", "ClusterRoleResource.get_annotations") >>,
            "Unsupported action or missing required parameters for cluster role.",
            q, cl, failing)

\* The if/elif chain of event_handler.
event_route(q) ==
    Route(<< OnFilter("list", {"reason"}, "EventResource.list_events_by_reason"),
             OnFilter("list", {"event_type"}, "EventResource.list_events_by_type"),
             OnFilter("list", {"count"}, "EventResource.list_recent_events"),
             On("list", "EventResource.list_events"),
             OnFilter("list_for_object", {"involved_object_kind", "involved_object_name"},
                      "EventResource.list_events_for_object") >>,
          q)

\* The method of EventResource the chain ended up at, called.
event_method(route, self, q, cl, failing) ==
    IF route = "EventResource.list_recent_events"
    THEN list_recent_events(self, q.filters.count, cl, failing)
    ELSE IF route = "EventResource.list_events"
    THEN list_events(self, cl, failing)
    ELSE InspectIn(self, route, q.specific_name, <<>>)

\* The handler, given the inspector it constructed and where its chain ended.
event_answer(self, route, q, cl, failing) ==
    IF self.raised # None THEN Raised(self.raised, <<>>)
    ELSE Answer(route, "Unsupported action or missing required parameters for events.",
                InNamespace(self.namespace, event_method(route, self, q, cl, failing)))

\* event_handler(query)
event_handler(q, cl, failing) ==
    event_answer(KubernetesBase(q.namespace, NoLabels, failing), event_route(q), q, cl, failing)

\* namespace_handler(query)
namespace_handler(q, cl, failing) ==
    Handler(KubernetesBase("default", LabelsIfFilters(q), failing),
            << OnFilter("list", {"labels"}, "NamespaceResource.find_namespaces_with_label"),
               On("list", "NamespaceResource.list_namespaces"),
               OnNamed("details", "NamespaceResource.get_namespace_details"),
               OnNamed("resources", "NamespaceResource.get_resources_in_namespace"),
               OnNamed("status", "NamespaceResource.get_namespace_status"),
               OnNamed("annotations", "NamespaceResource.get_annotations"),
               On("find_empty", "NamespaceResource.find_empty_namespaces"),
               OnNamed("resource_quotas", "NamespaceResource.get_resource_quotas"),
               OnNamed("network_policies", "NamespaceResource.get_network_policies"),
               OnNamed("events", "NamespaceResource.get_namespace_events"),
               On("find_terminating", "NamespaceResource.find_terminating_namespaces") >>,
            "Unsupported action or missing required parameters for namespace.",
            q, cl, failing)

\* np_handler(query)
np_handler(q, cl, failing) ==
    Handler(KubernetesBase(NamespaceOrDefault(q), LabelsIfFilters(q), failing),
            << On("list", "NetworkPolicyResource.list_network_policies"),
               OnNamed("details", "NetworkPolicyResource.get_network_policy_details"),
               OnNamed("pods_affected", "NetworkPolicyResource.get_pods_affected_by_policy"),
               OnNamed("policies_affecting_pod",
                       "NetworkPolicyResource.find_policies_affecting_pod"),
               On("list_by_ingress_rule",
                  "NetworkPolicyResource.list_policies_by_ingress_rule"),
               OnNamed("annotations", "NetworkPolicyResource.get_annotations") >>,
            "Unsupported action or missing required parameters for network policy.",
            q, cl, failing)

\* nodes_handler(query)
nodes_handler(q, cl, failing) ==
    Handler(KubernetesBase("default", LabelsIfFilters(q), failing),
            << OnFilter("list", {"labels"}, "NodeResource.list_nodes_with_label"),
               On("list", "NodeResource.list_nodes"),
               OnNamed("details", "NodeResource.get_node_details"),
               OnNamed("status", "NodeResource.get_node_status"),
               OnNamed("pods_on_node", "NodeResource.get_pods_on_node"),
               OnNamed("taints", "NodeResource.get_node_taints"),
               On("list_ready", "NodeResource.list_ready_nodes"),
               OnNamed("allocatable_resources", "NodeResource.get_allocatable_resources"),
               OnNamed("annotations", "NodeResource.get_node_annotations"),
               OnFilterUnguarded("list_by_condition", {"condition_type", "condition_status"},
                                 "NodeResource.list_nodes_with_condition"),
               OnFilterUnguarded("list_by_kernel_version", {"kernel_version"},
                                 "NodeResource.list_nodes_by_kernel_version"),
               OnNamed("kubelet_version", "NodeResource.get_node_kubelet_version") >>,
            "Unsupported action or missing required parameters for node.",
            q, cl, failing)

\* pv_handler(query) of cluster/persistent_volume.py
pv_handler(q, cl, failing) ==
    ResolverHandler(KubernetesBase("default", LabelsIfFilters(q), failing),
            << OnFilter("list", {"storage_class"},
                        "PersistentVolumeResource.find_pvs_by_storage_class"),
               OnFilter("list", {"operator", "size"},
                        "PersistentVolumeResource.list_pvs_by_capacity"),
               OnFilter("list", {"reclaim_policy"},
                        "PersistentVolumeResource.list_pvs_by_reclaim_policy"),
               OnFilter("list", {"status"}, "PersistentVolumeResource.find_pvs_by_status"),
               OnFilter("list", {"volume_mode"},
                        "PersistentVolumeResource.list_pvs_by_volume_mode"),
               On("list", "PersistentVolumeResource.list_persistent_volumes"),
               OnNamed("details", "PersistentVolumeResource.get_pv_details"),
               OnNamed("status", "PersistentVolumeResource.get_pv_status"),
               On("list_bound", "PersistentVolumeResource.list_pvs_bound_to_pvcs"),
               OnNamed("access_modes", "PersistentVolumeResource.get_pv_access_modes"),
               OnNamed("annotations", "PersistentVolumeResource.get_pv_annotations"),
               OnNamed("capacity", "PersistentVolumeResource.get_pv_capacity"),
               OnNamed("storage_class", "PersistentVolumeResource.get_pv_storage_class"),
               OnNamed("pvc_using_pv", "PersistentVolumeResource.get_pvc_using_pv") >>,
            "Unsupported action or missing required parameters for persistent volume.",
            q, cl, failing)

\* rb_handler(query)
rb_handler(q, cl, failing) ==
    Handler(KubernetesBase(NamespaceOrDefault(q), LabelsIfFilters(q), failing),
            << On("list", "RoleBindingResource.list_role_bindings"),
               OnNamed("details", "RoleBindingResource.get_rb_details"),
               OnNamed("subjects", "RoleBindingResource.get_subjects"),
               OnNamed("role_ref", "RoleBindingResource.get_role_ref"),
               OnFilterUnguarded("find_by_subject", {"subject_kind", "subject_name"},
                                 "RoleBindingResource.find_rbs_by_subject"),
               OnFilterUnguarded("find_by_role", {"role_name"},
                                 "RoleBindingResource.find_rbs_by_role"),
               OnNamed("annotations", "RoleBindingResource.get_annotations") >>,
            "Unsupported action or missing required parameters for role binding.",
            q, cl, failing)

\* roles_handler(query)
roles_handler(q, cl, failing) ==
    Handler(KubernetesBase(NamespaceOrDefault(q), LabelsIfFilters(q), failing),
            << On("list", "RoleResource.list_roles"),
               OnNamed("details", "RoleResource.get_role_details"),
               OnFilterUnguarded("find_by_permission", {"verbs", "resources"},
                                 "RoleResource.find_roles_by_permission"),
               OnNamed("annotations", "RoleResource.get_annotations") >>,
            "Unsupported action or missing required parameters for role.",
            q, cl, failing)

\* cluster_handler(query)
cluster_handler(q, cl, failing) ==
    IF q.resource_type = "cluster_role_bindings" THEN crb_handler(q, cl, failing)
    ELSE IF q.resource_type = "cluster_role" THEN cr_handler(q, cl, failing)
    ELSE IF q.resource_type = "event" THEN event_handler(q, cl, failing)
    ELSE IF q.resource_type = "namespace" THEN namespace_handler(q, cl, failing)
    ELSE IF q.resource_type = "network_policy" THEN np_handler(q, cl, failing)
    ELSE IF q.resource_type = "node" THEN nodes_handler(q, cl, failing)
    ELSE IF q.resource_type = "persistent_volume" THEN pv_handler(q, cl, failing)
    ELSE IF q.resource_type = "role_binding" THEN rb_handler(q, cl, failing)
    ELSE IF q.resource_type = "role" THEN roles_handler(q, cl, failing)
    ELSE Returned(Text("Unknown Resource Type", "", <<>>), <<>>)

----------------------------------------------------------------------------
(* The exposed entry point *)

\* handle_query(query), after the extraction of query_details.
handle_query(q, cl, failing) ==
    IF q.resource_category = "workload" /\ q.resource_type = "deployment"
    THEN IF ~HasFilters(q) THEN Raised("AttributeError", <<>>)
         ELSE deployment_answer(KubernetesBase(q.namespace, q.filters.labels, failing),
                                deployment_route(q), q, cl, failing)
    ELSE IF q.resource_category = "workload" /\ q.resource_type = "pod"
    THEN IF ~HasFilters(q) THEN Raised("AttributeError", <<>>)
         ELSE pod_answer(KubernetesBase(q.namespace, q.filters.labels, failing),
                         pod_route(q), q)
    ELSE Returned(Text("Dummy", "", <<>>), <<>>)

----------------------------------------------------------------------------
(* Bounded inputs: clusters *)

MaxWorkloads == 2   \* workload objects of a cluster of the plain family
MaxRefs == 2        \* references of the pod spec of the one-workload family
MaxStored == 2      \* ConfigMaps or Secrets of a cluster of the storage family

TargetNames == {"app", "db"}         \* names of ConfigMaps, Secrets and PVCs
WorkloadNames == {"api", "web"}      \* names of workloads
Namespaces == {"default", "other"}

\* Sequences over S of at most n elements.
RECURSIVE SeqsUpTo(_, _)
SeqsUpTo(S, n) ==
    IF n = 0 THEN {<<>>}
    ELSE LET shorter == SeqsUpTo(S, n - 1)
         IN  shorter \cup {Append(s, x) : s \in shorter, x \in S}

Volume(config_map, secret, pvc) ==
    [config_map |-> config_map, secret |-> secret, persistent_volume_claim |-> pvc]
EnvFrom(config_map_ref, secret_ref) ==
    [config_map_ref |-> config_map_ref, secret_ref |-> secret_ref]
EnvVar(config_map_key_ref, secret_key_ref) ==
    [config_map_key_ref |-> config_map_key_ref, secret_key_ref |-> secret_key_ref]
Container(env_from, env) == [env_from |-> env_from, env |-> env]
PodSpec(volumes, containers, image_pull_secrets) ==
    [volumes |-> volumes, containers |-> containers,
     image_pull_secrets |-> image_pull_secrets]

\* A pod spec with one container and no reference at all.
EmptySpec == PodSpec(<<>>, << Container(<<>>, <<>>) >>, <<>>)

\* A pod spec that mounts the ConfigMap, the Secret and the PVC called name.
MountsAll(name) ==
    PodSpec(<< Volume(name, None, None), Volume(None, name, None),
               Volume(None, None, name) >>,
            << Container(<<>>, <<>>) >>, <<>>)

\* One reference of a pod spec: where it stands and what it is.
Refs ==
    {[at |-> "volumes", v |-> Volume(n, None, None)] : n \in TargetNames}
    \cup {[at |-> "volumes", v |-> Volume(None, n, None)] : n \in TargetNames}
    \cup {[at |-> "volumes", v |-> Volume(None, None, n)] : n \in TargetNames}
    \cup {[at |-> "env_from", v |-> EnvFrom(n, None)] : n \in TargetNames}
    \cup {[at |-> "env_from", v |-> EnvFrom(None, n)] : n \in TargetNames}
    \cup {[at |-> "env", v |-> EnvVar(n, None)] : n \in TargetNames}
    \cup {[at |-> "env", v |-> EnvVar(None, n)] : n \in TargetNames}
    \cup {[at |-> "env", v |-> EnvVar(None, None)]}
    \cup {[at |-> "image_pull_secrets", v |-> [name |-> n]] : n \in TargetNames}

RECURSIVE RefsAt(_, _)
RefsAt(refs, at) ==
    IF refs = <<>> THEN <<>>
    ELSE IF Head(refs).at = at THEN << Head(refs).v >> \o RefsAt(Tail(refs), at)
         ELSE RefsAt(Tail(refs), at)

\* The pod spec, of one container, that holds the references in their order.
SpecOfRefs(refs) ==
    PodSpec(RefsAt(refs, "volumes"),
            << Container(RefsAt(refs, "env_from"), RefsAt(refs, "env")) >>,
            RefsAt(refs, "image_pull_secrets"))

Workload(kind, name, namespace, owner_references, spec) ==
    [kind |-> kind, name |-> name, namespace |-> namespace, labels |-> <<>>,
     owner_references |-> owner_references, spec |-> spec]

Stored(name, namespace, labels) ==
    [name |-> name, namespace |-> namespace, labels |-> labels]

RECURSIVE OfKind(_, _)
OfKind(objects, kind) ==
    IF objects = <<>> THEN <<>>
    ELSE IF Head(objects).kind = kind THEN << Head(objects) >> \o OfKind(Tail(objects), kind)
         ELSE OfKind(Tail(objects), kind)

\* No two objects of a kind share a name within a namespace.
DistinctNames(objects) ==
    \A i, j \in DOMAIN objects :
        i # j => << objects[i].kind, objects[i].namespace, objects[i].name >>
                 # << objects[j].kind, objects[j].namespace, objects[j].name >>

Cluster(workloads, config_maps, secrets) ==
    [deployments |-> OfKind(workloads, "Deployment"),
     statefulsets |-> OfKind(workloads, "StatefulSet"),
     daemonsets |-> OfKind(workloads, "DaemonSet"),
     pods |-> OfKind(workloads, "Pod"),
     config_maps |-> config_maps,
     secrets |-> secrets,
     persistent_volumes |-> <<>>,
     persistent_volume_claims |-> <<>>,
     events |-> <<>>]

\* The plain family: up to MaxWorkloads workloads of any kind in the default
\* namespace, each with no reference or mounting everything called "app";
\* a pod is standalone or owned by a ReplicaSet.
PlainWorkloads ==
    {Workload(k, n, "default", <<>>, s) :
        k \in {"Deployment", "StatefulSet", "DaemonSet", "Pod"},
        n \in WorkloadNames, s \in {EmptySpec, MountsAll("app")}}
    \cup {Workload("Pod", n, "default", << "ReplicaSet" >>, s) :
            n \in WorkloadNames, s \in {EmptySpec, MountsAll("app")}}

BothStored == << Stored("db", "default", <<>>), Stored("app", "default", <<>>) >>

PlainClusters ==
    {Cluster(w, BothStored, BothStored) :
        w \in {w \in SeqsUpTo(PlainWorkloads, MaxWorkloads) : DistinctNames(w)}}

\* The one-workload family: a Deployment or a standalone Pod whose pod spec
\* holds up to MaxRefs references of any mechanism to any name.
RefClusters ==
    {Cluster(<< Workload(k, "api", "default", <<>>, SpecOfRefs(refs)) >>,
             BothStored, BothStored) :
        k \in {"Deployment", "Pod"}, refs \in SeqsUpTo(Refs, MaxRefs)}

\* The owner family: a Pod owned by a Job, a CronJob or a ReplicaSet whose pod
\* spec holds at most one reference, alone or next to one more workload.
OwnerKinds == {"Job", "CronJob", "ReplicaSet"}

OwnerClusters ==
    {Cluster(<< Workload("Pod", "api", "default", << k >>, SpecOfRefs(refs)) >> \o w,
             BothStored, BothStored) :
        k \in OwnerKinds, refs \in SeqsUpTo(Refs, 1),
        w \in {<<>>,
               << Workload("Deployment", "web", "default", <<>>, EmptySpec) >>,
               << Workload("Deployment", "web", "default", <<>>, MountsAll("app")) >>,
               << Workload("Pod", "web", "default", <<>>, MountsAll("db")) >>}}

\* The storage family: up to MaxStored ConfigMaps (or Secrets) over two
\* namespaces, labelled or not, and at most one Deployment mounting "app".
StoredObjects ==
    {Stored(n, "default", l) : n \in TargetNames, l \in {<<>>, << <<"tier", "x">> >>}}
    \cup {Stored(n, "other", <<>>) : n \in TargetNames}

DistinctStored(objects) ==
    \A i, j \in DOMAIN objects :
        i # j => << objects[i].namespace, objects[i].name >>
                 # << objects[j].namespace, objects[j].name >>

StoredLists == {s \in SeqsUpTo(StoredObjects, MaxStored) : DistinctStored(s)}

StorageClusters ==
    LET ws == {<<>>} \cup {<< Workload("Deployment", "api", ns, <<>>, MountsAll("app")) >> :
                              ns \in Namespaces}
    IN  {Cluster(w, s, <<>>) : w \in ws, s \in StoredLists}
        \cup {Cluster(w, <<>>, s) : w \in ws, s \in StoredLists}

\* The clusters of the storage family whose objects are all unlabelled and in
\* the default namespace.
DefaultOnly(objects) ==
    \A i \in DOMAIN objects : objects[i].namespace = "default" /\ objects[i].labels = <<>>

FailureClusters ==
    {c \in StorageClusters :
        /\ DefaultOnly(c.deployments) /\ DefaultOnly(c.config_maps) /\ DefaultOnly(c.secrets)}

\* A Deployment with its status.available_replicas and spec.replicas, each
\* unset or a number.
Deployment(name, available_replicas, replicas) ==
    [kind |-> "Deployment", name |-> name, namespace |-> "default", labels |-> <<>>,
     owner_references |-> <<>>, spec |-> EmptySpec,
     available_replicas |-> available_replicas, replicas |-> replicas]

\* The deployment family: up to MaxWorkloads deployments of the default
\* namespace, with no, 0 or 1 available replicas of no, 1 or 3 wanted.
DeploymentClusters ==
    {Cluster([i \in DOMAIN d |-> Deployment(<<"api", "web", "job">>[i], d[i][1], d[i][2])],
             <<>>, <<>>) :
        d \in SeqsUpTo({<<>>, <<0>>, <<1>>} \X {<<>>, <<1>>, <<3>>}, MaxWorkloads)}

MaxVolumes == 3     \* volumes (and claims) of a cluster of the capacity family

\* A PersistentVolume: metadata.name, metadata.labels, spec.capacity['storage'],
\* spec.storage_class_name and spec.persistent_volume_reclaim_policy.
PersistentVolume(name, capacity, storage_class_name, reclaim_policy, labels) ==
    [name |-> name, labels |-> labels, capacity |-> capacity,
     storage_class_name |-> storage_class_name,
     persistent_volume_reclaim_policy |-> reclaim_policy]

\* A PersistentVolumeClaim: status.capacity['storage'] (None while unbound)
\* and spec.storage_class_name.
PersistentVolumeClaim(name, namespace, capacity, storage_class_name, labels) ==
    [name |-> name, namespace |-> namespace, labels |-> labels, capacity |-> capacity,
     storage_class_name |-> storage_class_name]

\* A cluster of volumes and claims and nothing else.
VolumeCluster(pvs, pvcs) ==
    [Cluster(<<>>, <<>>, <<>>) EXCEPT !.persistent_volumes = pvs,
                                      !.persistent_volume_claims = pvcs]

\* The comparison family: one volume of any well-formed capacity.
ComparisonClusters ==
    {VolumeCluster(<< PersistentVolume("pv1", JoinWith(m \o u, ""), "fast", "Retain", <<>>) >>, <<>>) :
        m \in Magnitudes, u \in BinaryUnits}

\* The capacity family: up to MaxVolumes volumes of 10Gi, 50Gi or 100Gi in
\* any order the API may return them in, and as many claims of the same
\* capacities in the default namespace.
CapacityClusters ==
    {VolumeCluster([i \in DOMAIN c |-> PersistentVolume(<<"pv1", "pv2", "pv3", "pv4">>[i], c[i],
                                               "fast", "Retain", <<>>)],
                   [i \in DOMAIN c |-> PersistentVolumeClaim(<<"pvc1", "pvc2", "pvc3", "pvc4">>[i], "default",
                                             c[i], "fast", <<>>)]) :
        c \in SeqsUpTo({"10Gi", "50Gi", "100Gi"}, MaxVolumes)}

\* The priority family: two volumes and two claims that differ in storage
\* class, capacity, reclaim policy and labels, and a claim not bound yet.
PriorityCluster ==
    VolumeCluster(<< PersistentVolume("pv1", "10Gi", "fast", "Retain", << <<"tier", "x">> >>),
                     PersistentVolume("pv2", "100Gi", "slow", "Delete", <<>>) >>,
                  << PersistentVolumeClaim("pvc1", "default", "10Gi", "fast", << <<"tier", "x">> >>),
                     PersistentVolumeClaim("pvc2", "default", "100Gi", "slow", <<>>),
                     PersistentVolumeClaim("pvc3", "default", None, "slow", <<>>) >>)

\* The selector family: up to MaxStored ConfigMaps of the default namespace
\* that carry no label, one label or two.
LabelledObjects ==
    {Stored(n, "default", l) :
        n \in TargetNames,
        l \in {<<>>, << <<"app", "x">> >>, << <<"app", "x">>, <<"tier", "y">> >>}}

SelectorClusters ==
    {Cluster(<<>>, s, <<>>) :
        s \in {s \in SeqsUpTo(LabelledObjects, MaxStored) : DistinctStored(s)}}

----------------------------------------------------------------------------
(* Bounded inputs: queries *)

ListLabels(entries) == [kind |-> "list", entries |-> entries]
DictLabels(entries) == [kind |-> "dict", entries |-> entries]

\* The filters of a query as the extraction schema (QueryFilters) shapes them:
\* a status string and a list of Label(key, value).
SchemaFilters(status, entries) == Filters({}, status, ListLabels(entries))

\* What openai_client.extract can hand to handle_query: a KubernetesQuery,
\* every field a string and filters a QueryFilters.
SchemaConformant(q) ==
    /\ q.namespace # None
    /\ q.specific_name # None
    /\ HasFilters(q)
    /\ q.filters.labels.kind = "list"
    /\ q.filters.status # None
    /\ \A f \in FilterFields \ {"status", "labels"} : q.filters[f] = None

MaxEvents == 3      \* events of a cluster of the event family

\* An event with its three timestamps, the optional ones with no element
\* for None; the API server sets the creation timestamp of every object.
Event(name, namespace, last_timestamp, event_time, creation_timestamp) ==
    [name |-> name, namespace |-> namespace, labels |-> <<>>,
     last_timestamp |-> last_timestamp, event_time |-> event_time,
     creation_timestamp |-> creation_timestamp]

\* The timestamps of an event of the family: a last_timestamp, an event_time
\* without it, the creation timestamp alone, or a last_timestamp older than
\* the event_time.
EventTimes ==
    {<< <<t>>, <<>>, 1 >> : t \in 1..2}
    \cup {<< <<>>, <<3>>, 1 >>, << <<>>, <<>>, 2 >>, << <<1>>, <<3>>, 2 >>}

\* The event family: up to MaxEvents events in the order the API server
\* returns them, the third one in another namespace.
EventClusters ==
    {[Cluster(<<>>, <<>>, <<>>) EXCEPT
         !.events = [i \in DOMAIN ts |->
                        Event(<< "e1", "e2", "e3", "e4" >>[i],
                              IF i = 3 THEN "other" ELSE "default",
                              ts[i][1], ts[i][2], ts[i][3])]] :
        ts \in SeqsUpTo(EventTimes, MaxEvents)}

\* List queries of events with a count, with none and with a null namespace.
EventQueries ==
    {Query("cluster", "event", "list", ns, "", Filters({}, None, NoLabels)) :
        ns \in {"default", None}}
    \cup {Query("cluster", "event", "list", ns, "",
                [Filters({}, None, NoLabels) EXCEPT !.count = c]) :
            ns \in {"default", None}, c \in {"-1", "0", "1", "2", "4"}}

\* The pull family: up to MaxWorkloads pods of the default namespace, each
\* with up to MaxRefs imagePullSecrets entries.
PullClusters ==
    {Cluster([i \in DOMAIN pulls |->
                 Workload("Pod", << "api", "web", "job" >>[i], "default", <<>>,
                          PodSpec(<<>>, << Container(<<>>, <<>>) >>,
                                  [k \in DOMAIN pulls[i] |-> [name |-> pulls[i][k]]])) ],
             BothStored, BothStored) :
        pulls \in SeqsUpTo(SeqsUpTo(TargetNames, MaxRefs), MaxWorkloads)}

\* The orders in which a process may iterate over a set of the names: one
\* per hash seed.
HashOrders == {<< "app", "db" >>, << "db", "app" >>}

\* used_by and unused queries of the config_storage kinds.
RelationQueries(namespaces, names, labelings) ==
    {Query("config_storage", t, "used_by", ns, n, SchemaFilters("", <<>>)) :
        t \in {"config_maps", "secrets", "pv"}, ns \in namespaces, n \in names}
    \cup {Query("config_storage", t, "unused", ns, "", Filters({}, "", l)) :
            t \in {"config_maps", "secrets"}, ns \in namespaces, l \in labelings}

MaxLabels == 2      \* entries of the labels mapping of a query

LabelKeys == {"app", "tier"}
LabelValues == {"x", "y"}

\* The label mappings of at most MaxLabels entries, in every insertion order;
\* a mapping holds a key once.
LabelMappings ==
    {m \in SeqsUpTo({<<k, v>> : k \in LabelKeys, v \in LabelValues}, MaxLabels) :
        \A i, j \in DOMAIN m : i # j => m[i][1] # m[j][1]}

\* list and unused queries of ConfigMaps that select by a label mapping.
SelectorQueries ==
    {Query("config_storage", "config_maps", a, "default", "", Filters({}, "", DictLabels(m))) :
        a \in {"list", "unused"}, m \in LabelMappings}

\* List queries of deployments with each status filter.
DeploymentQueries ==
    {Query("workload", "deployment", "list", "default", "", SchemaFilters(st, <<>>)) :
        st \in {"", "all", "active", "terminated"}}

\* The filters of a list query of volumes or claims.
VolumeFilters(storage_class, operator, size, reclaim_policy, labels) ==
    [Filters({}, None, labels) EXCEPT !.storage_class = storage_class,
                                      !.operator = operator, !.size = size,
                                      !.reclaim_policy = reclaim_policy]

\* The list queries that reach the volumes (cluster, persistent_volume) and
\* the claims (config_storage, pv).
VolumeQueries(filters) ==
    {Query(t[1], t[2], "list", "default", "", f) :
        t \in {<<"cluster", "persistent_volume">>, <<"config_storage", "pv">>}, f \in filters}

\* Size comparisons of every operator with every size literal.
ComparisonQueries ==
    {Query("cluster", "persistent_volume", "list", "default", "",
           VolumeFilters(None, op, JoinWith(s, ""), None, NoLabels)) :
        op \in {">", "<", "="}, s \in SizeLiterals}

\* Every combination of the filters of a list of volumes: set or not.
PriorityFilters ==
    {VolumeFilters(sc, os[1], os[2], rp, l) :
        sc \in {None, "fast"},
        os \in {<<None, None>>, <<">", "50Gi">>, <<None, "50Gi">>, <<"<", "50Gi">>},
        rp \in {None, "Retain"},
        l \in {NoLabels, DictLabels(<< <<"tier", "x">> >>), ListLabels(<< <<"tier", "x">> >>)}}

\* Queries of namespaced kinds that name the namespace 'default' or none.
NamespaceQueries ==
    {Query(t[1], t[2], a, ns, "app", Filters({}, "", NoLabels)) :
        t \in { <<"workload", "deployment">>, <<"workload", "statefulset">>,
                <<"services", "service">>, <<"config_storage", "config_maps">>,
                <<"config_storage", "secrets">>, <<"config_storage", "pv">>,
                <<"cluster", "event">>, <<"cluster", "role_binding">>,
                <<"cluster", "network_policy">>, <<"cluster", "service_account">> },
        a \in {"list", "details", "count", "annotations", "used_by", "unused"},
        ns \in {None, "default"}}

Categories == {"workload", "services", "config_storage", "cluster"}

\* The resource types of the data model, by category.
TypesOf(category) ==
    CASE category = "workload" ->
            {"deployment", "pod", "cronjob", "daemonset", "job", "replicaset", "statefulset"}
      [] category = "services" -> {"service", "ingress", "ingress_class"}
      [] category = "config_storage" -> {"config_maps", "pv", "secrets", "storage_class"}
      [] category = "cluster" ->
            {"cluster_role", "cluster_role_binding", "role", "role_binding", "namespace",
             "node", "event", "network_policy", "service_account"}
      [] OTHER -> {}

DataModelTypes == UNION {TypesOf(c) : c \in Categories}

\* The spellings cluster_handler compares with, where they differ.
CodeSpellings == {"cluster_role_bindings", "persistent_volume"}

AllActions ==
    { "access_modes", "allocatable_resources", "annotations", "backend_services",
      "bound_pv", "capacity", "cluster_ip", "controller", "count", "creation_time",
      "details", "endpoints", "events", "exists", "find_by_permission", "find_by_role",
      "find_by_subject", "find_empty", "find_terminating", "find_without_subjects",
      "hostnames", "image_pull_secrets", "keys", "kubelet_version", "last_run", "list",
      "list_bound", "list_by_condition", "list_by_ingress_rule",
      "list_by_kernel_version", "list_for_object", "list_ready", "network_policies",
      "next_run", "node_affinity", "parameters", "pods", "pods_affected", "pods_on_node",
      "policies_affecting_pod", "ports", "pvc_using_pv", "resource_quotas", "resources",
      "role_ref", "rules", "selectors", "status", "storage_class", "subjects", "taints",
      "tls", "type", "unused", "used_as_env", "used_by", "volume_claims", "restart" }

\* One field of each pair of fields an action requires together.
FirstOfPairs ==
    {"subject_kind", "condition_type", "verbs", "operator", "involved_object_kind"}

FilterProfiles ==
    { NoFilters,
      SchemaFilters("", <<>>),
      SchemaFilters("active", << <<"tier", "x">> >>),
      Filters({}, None, NoLabels),
      Filters(FirstOfPairs, None, NoLabels),
      Filters(FilterFields \ {"storage_class", "reason"}, "Bound", NoLabels),
      Filters(FilterFields, "Bound", DictLabels(<< <<"tier", "x">> >>)) }

\* Queries for the router: every action of every type under the type's own
\* category, and every type (known or not) under every category (known or
\* not).
RouterQueries ==
    UNION {{Query(c, t, a, "default", n, f) :
               t \in TypesOf(c) \cup (IF c = "cluster" THEN CodeSpellings ELSE {}),
               a \in AllActions, n \in {"", "app"}, f \in FilterProfiles} :
           c \in Categories}
    \cup {Query(c, t, a, "default", "", f) :
            c \in Categories \cup {"storage"},
            t \in DataModelTypes \cup CodeSpellings \cup {"widget"},
            a \in {"list", "restart"}, f \in {NoFilters, SchemaFilters("", <<>>)}}

----------------------------------------------------------------------------
(* The state machine *)

\* The operations whose failure the model follows, one at a time.
FailChoices ==
    {{}} \cup {{op} : op \in SeqToSet(WorkloadListings)
                          \cup {"list_namespaced_config_map", "list_namespaced_secret",
                                "load_kube_config"}}

NoResult == [status |-> "none", text |-> Text("", "", <<>>)]

\* No scan is followed step by step; no request is followed through the
\* server's process.
NoScan == listed = <<>> /\ history = <<>>
NoConfiguration == [context |-> None, by |-> 0]
Idle == [request |-> 0, at |-> "idle"]
NoSession ==
    /\ kubeconfig = "minikube"
    /\ configuration = NoConfiguration
    /\ handling = Idle
    /\ connected = <<>>

Init ==
    /\ \/ /\ cluster \in PlainClusters
          /\ outage = {}
          /\ query \in RelationQueries({"default"}, {"app"}, {ListLabels(<<>>)})
       \/ /\ cluster \in RefClusters
          /\ outage = {}
          /\ query \in RelationQueries({"default"}, TargetNames, {ListLabels(<<>>)})
       \/ /\ cluster \in OwnerClusters
          /\ outage = {}
          /\ query \in RelationQueries({"default"}, TargetNames, {ListLabels(<<>>)})
       \/ /\ cluster \in PullClusters
          /\ outage \in {{}, {"list_namespaced_pod"}}
          /\ query = Query("config_storage", "secrets", "image_pull_secrets", "default", "",
                           Filters({}, None, NoLabels))
       \/ /\ cluster \in StorageClusters
          /\ outage = {}
          /\ query \in RelationQueries(Namespaces, TargetNames,
                                       {NoLabels, DictLabels(<< <<"tier", "x">> >>)})
       \/ /\ cluster \in FailureClusters
          /\ outage \in FailChoices
          /\ query \in RelationQueries({"default"}, TargetNames, {NoLabels})
       \/ /\ cluster = Cluster(<<>>, BothStored, BothStored)
          /\ outage = {}
          /\ query \in RouterQueries
       \/ /\ cluster = Cluster(<<>>, BothStored, BothStored)
          /\ outage = {}
          /\ query \in NamespaceQueries
       \/ /\ cluster \in EventClusters
          /\ outage \in {{}, {"list_namespaced_event"}}
          /\ query \in EventQueries
       \/ /\ cluster \in SelectorClusters
          /\ outage = {}
          /\ query \in SelectorQueries
       \/ /\ cluster \in DeploymentClusters
          /\ outage \in {{}, {"list_namespaced_deployment"}}
          /\ query \in DeploymentQueries
       \/ /\ cluster \in ComparisonClusters
          /\ outage = {}
          /\ query \in ComparisonQueries
       \/ /\ cluster \in CapacityClusters
          /\ outage = {}
          /\ query \in VolumeQueries({VolumeFilters(None, op, sz, None, NoLabels) :
                                         op \in {">", "<", "="}, sz \in {"2Gi", "50Gi", "big"}})
       \/ /\ cluster = PriorityCluster
          /\ outage \in {{}, {"list_persistent_volume"},
                          {"list_namespaced_persistent_volume_claim"}, {"load_kube_config"}}
          /\ query \in VolumeQueries(PriorityFilters)
    /\ hash_order \in (IF cluster \in PullClusters /\ query.action = "image_pull_secrets"
                       THEN HashOrders ELSE {<< "app", "db" >>})
    /\ entry = "idle"
    /\ result = NoResult
    /\ calls = <<>>
    /\ NoScan
    /\ NoSession

\* An entry point runs the query to its end.
Execute(name, outcome) ==
    /\ entry = "idle"
    /\ entry' = name
    /\ result' = [status |-> outcome.status, text |-> outcome.text]
    /\ calls' = outcome.calls
    /\ UNCHANGED <<cluster, outage, query, hash_order, scan, process>>

\* POST /query: handle_query on what the extractor returned.
HandleQuery ==
    /\ SchemaConformant(query)
    /\ Execute("handle_query", handle_query(query, cluster, outage))

\* The handler of the query's category, on the query.
WorkloadHandler ==
    /\ query.resource_category = "workload"
    /\ Execute("workload_handler", workload_handler(query, cluster, outage))

ServiceHandler ==
    /\ query.resource_category = "services"
    /\ Execute("service_handler", service_handler(query, cluster, outage))

ConfigStorageHandler ==
    /\ query.resource_category = "config_storage"
    /\ Execute("config_storage_handler", config_storage_handler(query, cluster, outage))

ClusterHandler ==
    /\ query.resource_category = "cluster"
    /\ Execute("cluster_handler", cluster_handler(query, cluster, outage))

Next ==
    \/ HandleQuery
    \/ WorkloadHandler
    \/ ServiceHandler
    \/ ConfigStorageHandler
    \/ ClusterHandler

Spec == Init /\ [][Next]_vars

----------------------------------------------------------------------------
(* Properties: vocabulary *)

\* The entry points of the four category handlers.
CategoryEntries ==
    {"workload_handler", "service_handler", "config_storage_handler", "cluster_handler"}

\* A used_by (an unused) query of a config_storage kind has been executed.
RanUsedBy == entry = "config_storage_handler" /\ query.action = "used_by"
RanUnused == entry = "config_storage_handler" /\ query.action = "unused"

UsedByHeaders == {"Workloads using ConfigMap", "Workloads using Secret", "Workloads using PVC"}

ProviderErrorTexts ==
    { "Error finding workloads using configmap", "Error finding workloads using secret",
      "Error finding workloads using PVC", "Error retrieving unused configmaps",
      "Error retrieving unused secrets" }

UnusedVerdicts ==
    { "Unused ConfigMaps:", "All ConfigMaps are used by workloads.",
      "Unused Secrets:", "All Secrets are used by workloads." }

\* The "Kind/name" entries of the executed used_by query's answer.
Reported ==
    IF result.status = "returned" /\ result.text.tpl \in UsedByHeaders
    THEN SeqToSet(result.text.lines) ELSE {}

\* The names of the executed unused query's result set.
UnusedNames ==
    IF result.status = "returned" /\ result.text.tpl \in {"Unused ConfigMaps:", "Unused Secrets:"}
    THEN {l[1] : l \in SeqToSet(result.text.lines)} ELSE {}

\* The objects of the cluster in a namespace that a used_by scan is to
\* consider: Deployments, StatefulSets, DaemonSets and Pods without owner.
Candidates(cl, namespace) ==
    {w \in SeqToSet(cl.deployments) \cup SeqToSet(cl.statefulsets)
           \cup SeqToSet(cl.daemonsets) \cup SeqToSet(cl.pods) :
        /\ w.namespace = namespace
        /\ (w.kind = "Pod" => w.owner_references = <<>>)}

OwnedPods(cl, namespace) ==
    {p \in SeqToSet(cl.pods) : p.namespace = namespace /\ p.owner_references # <<>>}

\* The names a pod spec's volumes refer to, for a config_storage kind.
VolumeNames(spec, type) ==
    {(CASE type = "config_maps" -> spec.volumes[i].config_map
        [] type = "secrets" -> spec.volumes[i].secret
        [] OTHER -> spec.volumes[i].persistent_volume_claim) : i \in DOMAIN spec.volumes}
    \ {None}

\* The names a pod spec refers to through any mechanism that counts for the
\* kind: volumes; for ConfigMaps and Secrets envFrom and env valueFrom; for
\* Secrets imagePullSecrets.
ReferencedNames(spec, type) ==
    LET envFrom == UNION {{IF type = "config_maps"
                           THEN spec.containers[c].env_from[i].config_map_ref
                           ELSE spec.containers[c].env_from[i].secret_ref :
                              i \in DOMAIN spec.containers[c].env_from} :
                          c \in DOMAIN spec.containers}
        env == UNION {{IF type = "config_maps"
                       THEN spec.containers[c].env[i].config_map_key_ref
                       ELSE spec.containers[c].env[i].secret_key_ref :
                          i \in DOMAIN spec.containers[c].env} :
                      c \in DOMAIN spec.containers}
        pull == {spec.image_pull_secrets[i].name : i \in DOMAIN spec.image_pull_secrets}
    IN  (VolumeNames(spec, type)
         \cup (IF type \in {"config_maps", "secrets"} THEN envFrom \cup env ELSE {})
         \cup (IF type = "secrets" THEN pull ELSE {})) \ {None}

----------------------------------------------------------------------------
(* Properties *)

\* C1 -- Totality: for every query (any category, type and action, with or
\* without a name, with any filters, a non-empty labels filter included)
\* handle_query returns a string and raises nothing.
C1_Totality == entry = "handle_query" => result.status = "returned"

\* The answer of used_by(name) for the ConfigMap called name, asked of the
\* same cluster in the same condition as the executed query.
UsedByConfigMap(name) ==
    config_storage_handler(
        Query("config_storage", "config_maps", "used_by", query.namespace, name, query.filters),
        cluster, outage)

\* The ConfigMaps the executed unused query's own listing returns.
ListedConfigMaps ==
    {o.name : o \in {o \in SeqToSet(cluster.config_maps) :
                        /\ o.namespace = query.namespace
                        /\ SeqToSet(LabelsIfFilters(query).entries) \subseteq SeqToSet(o.labels)}}

C3_FailClosed ==
    ((RanUsedBy \/ RanUnused)
        /\ \E i \in DOMAIN calls :
              ~calls[i].ok /\ calls[i].op \in SeqToSet(WorkloadListings))
    => (result.status = "returned" /\ result.text.tpl \in ProviderErrorTexts)

\* C4 -- candidate enumeration: a used_by query whose listings succeed reports
\* every Deployment, StatefulSet, DaemonSet and owner-less Pod of the
\* namespace that mounts the target as a volume, reports only objects of the
\* namespace, and never reports a Pod that has an owner reference.
C4_Candidates ==
    (RanUsedBy /\ result.status = "returned" /\ result.text.tpl \notin ProviderErrorTexts)
    => /\ \A w \in Candidates(cluster, query.namespace) :
             query.specific_name \in VolumeNames(w.spec, query.resource_type)
             => << w.kind, w.name >> \in Reported
       /\ \A p \in OwnedPods(cluster, query.namespace) : << "Pod", p.name >> \notin Reported
       /\ \A l \in Reported :
             \E w \in Candidates(cluster, query.namespace) : l = << w.kind, w.name >>

\* A used_by query has reported a workload while a Pod with an owner
\* reference, in the same namespace, mounts the target too.
C4_Witness ==
    /\ RanUsedBy /\ Reported # {}
    /\ \E p \in OwnedPods(cluster, query.namespace) :
          query.specific_name \in VolumeNames(p.spec, query.resource_type)

\* C5 -- reference mechanisms: a candidate is reported by used_by iff its pod
\* spec refers to the target by a volume, an envFrom entry, an env valueFrom
\* key reference or (Secrets only) an imagePullSecrets entry; for a PVC only a
\* volume's claim name counts.  When the only workload is a Deployment that
\* mounts the ConfigMap as a volume, the answer is the header for the
\* ConfigMap followed by the line Deployment/<name>.
C5_Mechanisms ==
    (RanUsedBy /\ result.status = "returned" /\ result.text.tpl \notin ProviderErrorTexts)
    => /\ \A w \in Candidates(cluster, query.namespace) :
             (<< w.kind, w.name >> \in Reported)
             <=> (query.specific_name \in ReferencedNames(w.spec, query.resource_type))
       /\ \A d \in SeqToSet(cluster.deployments) :
             (/\ query.resource_type = "config_maps"
              /\ Candidates(cluster, query.namespace) = {d}
              /\ query.specific_name \in VolumeNames(d.spec, "config_maps"))
             => result.text = Text("Workloads using ConfigMap", query.specific_name,
                                   << << "Deployment", d.name >> >>)

\* A used_by query has reported a workload that refers to the target by an
\* envFrom entry or an env key reference only, not by a volume.
C5_Witness ==
    /\ RanUsedBy /\ query.resource_type \in {"config_maps", "secrets"}
    /\ \E w \in Candidates(cluster, query.namespace) :
          /\ << w.kind, w.name >> \in Reported
          /\ query.specific_name \notin VolumeNames(w.spec, query.resource_type)
          /\ w.spec.image_pull_secrets = <<>>

\* The order of the kinds (the order the scans run in) and of the names.
KindRank(kind) ==
    CASE kind = "Deployment" -> 1 [] kind = "StatefulSet" -> 2
      [] kind = "DaemonSet" -> 3 [] OTHER -> 4
NameRank(name) == IF name = "api" THEN 1 ELSE 2

\* C6 -- the consumer list of used_by holds each Kind/Name once and is ordered
\* by kind and then by name, whatever order the cluster API returns the
\* objects in.
C6_SortedByKindThenName ==
    (RanUsedBy /\ result.status = "returned" /\ result.text.tpl \in UsedByHeaders)
    => \A i, j \in DOMAIN result.text.lines :
          i < j =>
            LET a == result.text.lines[i]
                b == result.text.lines[j]
            IN  \/ KindRank(a[1]) < KindRank(b[1])
                \/ KindRank(a[1]) = KindRank(b[1]) /\ NameRank(a[2]) < NameRank(b[2])

\* The outcome of the category's handler on the executed query.
CategoryOutcome ==
    CASE query.resource_category = "workload" -> workload_handler(query, cluster, outage)
      [] query.resource_category = "services" -> service_handler(query, cluster, outage)
      [] query.resource_category = "config_storage" ->
            config_storage_handler(query, cluster, outage)
      [] OTHER -> cluster_handler(query, cluster, outage)

\* C7 -- category-level dispatch: handle_query answers a query of each of the
\* four categories as the category's handler does, and any other category
\* with a fixed text.
C7_CategoryDispatch ==
    entry = "handle_query"
    => IF query.resource_category \in Categories
       THEN /\ result = [status |-> CategoryOutcome.status, text |-> CategoryOutcome.text]
            /\ calls = CategoryOutcome.calls
       ELSE result.status = "returned" /\ calls = <<>>

\* C8 -- for a known category, a query whose type the category does not
\* recognise is answered 'Unknown Resource Type', with no cluster API
\* operation made and nothing raised.
C8_UnknownType ==
    (entry # "idle" /\ query.resource_category \in Categories
        /\ query.resource_type \notin TypesOf(query.resource_category) \cup CodeSpellings)
    => /\ result = [status |-> "returned", text |-> Text("Unknown Resource Type", "", <<>>)]
       /\ calls = <<>>

\* C9 -- every resource type of the data model is dispatched by its category's
\* handler to the type's inspector: none is answered 'Unknown Resource Type'
\* and none fails for want of a handler.
C9_EveryTypeDispatched ==
    (entry \in CategoryEntries /\ query.resource_type \in TypesOf(query.resource_category))
    => /\ ~(result.status = "returned" /\ result.text.tpl = "Unknown Resource Type")
       /\ ~(result.status = "raised" /\ result.text.tpl = "ImportError")

\* The actions that every handler serves only with a specific_name.
NamedActions ==
    { "access_modes", "allocatable_resources", "annotations", "backend_services",
      "bound_pv", "capacity", "cluster_ip", "controller", "creation_time", "details",
      "endpoints", "events", "hostnames", "keys", "kubelet_version", "last_run",
      "network_policies", "next_run", "node_affinity", "parameters", "pods",
      "pods_affected", "pods_on_node", "policies_affecting_pod", "ports", "pvc_using_pv",
      "resource_quotas", "resources", "role_ref", "rules", "selectors", "status",
      "storage_class", "subjects", "taints", "tls", "type", "used_by", "volume_claims" }

\* The actions that are served only with filter fields, and the fields.
FilterActions ==
    [ find_by_subject |-> {"subject_kind", "subject_name"},
      find_by_role |-> {"role_name"},
      find_by_permission |-> {"verbs", "resources"},
      list_by_condition |-> {"condition_type", "condition_status"},
      list_by_kernel_version |-> {"kernel_version"},
      list_for_object |-> {"involved_object_kind", "involved_object_name"} ]

\* The executed query omits a field its action requires.
OmitsRequired ==
    \/ query.action \in NamedActions /\ ~Truthy(query.specific_name)
    \/ /\ query.action \in DOMAIN FilterActions
       /\ \/ ~HasFilters(query)
          \/ \E f \in FilterActions[query.action] : ~Truthy(query.filters[f])

UnsupportedTexts ==
    { "Unsupported action or missing required parameters.",
      "Unsupported action or missing required parameters for cronjob.",
      "Unsupported action or missing required parameters for daemonset.",
      "Unsupported action or missing required parameters for replicaset.",
      "Unsupported action or missing required parameters for statefulset.",
      "Unsupported action or missing required parameters for ingress.",
      "Unsupported action or missing required parameters for ingress class.",
      "Unsupported action or missing required parameters for service.",
      "Unsupported action or missing required parameters for configmap.",
      "Unsupported action or missing required parameters for persistent volume claim.",
      "Unsupported action or missing required parameters for secret.",
      "Unsupported action or missing required parameters for cluster role binding.",
      "Unsupported action or missing required parameters for cluster role.",
      "Unsupported action or missing required parameters for events.",
      "Unsupported action or missing required parameters for namespace.",
      "Unsupported action or missing required parameters for network policy.",
      "Unsupported action or missing required parameters for node.",
      "Unsupported action or missing required parameters for persistent volume.",
      "Unsupported action or missing required parameters for role binding.",
      "Unsupported action or missing required parameters for role." }

\* The types a category's handler passes on to a handler that exists.
HandledTypes(category) ==
    CASE category = "workload" ->
            {"deployment", "cronjob", "daemonset", "replicaset", "statefulset"}
      [] category = "services" -> {"ingress", "ingress_class", "service"}
      [] category = "config_storage" -> {"config_maps", "pv", "secrets"}
      [] category = "cluster" ->
            {"cluster_role_bindings", "cluster_role", "event", "namespace",
             "network_policy", "node", "persistent_volume", "role_binding", "role"}
      [] OTHER -> {}

\* C10 -- a query that omits the specific_name or a filter field its action
\* requires (a query with no filters object included) is answered with the
\* kind's 'Unsupported action or missing required parameters' text, with no
\* cluster API operation made and nothing raised.
C10_MissingRequired ==
    (entry \in CategoryEntries
        /\ query.resource_type \in HandledTypes(query.resource_category) /\ OmitsRequired)
    => /\ result.status = "returned"
       /\ result.text.tpl \in UnsupportedTexts
       /\ calls = <<>>

\* The selector string of a label mapping, written out for mappings of no,
\* one, two and three entries.
SelectorOf(m) ==
    CASE Len(m) = 0 -> ""
      [] Len(m) = 1 -> m[1][1] \o "=" \o m[1][2]
      [] Len(m) = 2 -> m[1][1] \o "=" \o m[1][2] \o "," \o m[2][1] \o "=" \o m[2][2]
      [] OTHER -> m[1][1] \o "=" \o m[1][2] \o "," \o m[2][1] \o "=" \o m[2][2]
                  \o "," \o m[3][1] \o "=" \o m[3][2]

\* The inspector the config_storage handlers construct for the executed query.
InspectorOfQuery == KubernetesBase(query.namespace, LabelsIfFilters(query), outage)

\* The ConfigMaps of the query's namespace that carry every label of the
\* query's mapping.
CarryingLabels ==
    {o.name : o \in {o \in SeqToSet(cluster.config_maps) :
                        /\ o.namespace = query.namespace
                        /\ SeqToSet(LabelsIfFilters(query).entries) \subseteq SeqToSet(o.labels)}}

\* C17 -- selector identity: the label selector an inspector builds from a
\* label mapping is the comma-joined key=value pairs in the mapping's own
\* order; the empty or absent mapping yields the empty string, which selects
\* every object, and {'app':'x','tier':'y'} yields 'app=x,tier=y'.  The
\* listing made with the selector returns the objects carrying the labels.
\* Stated of the inspectors whose construction got as far as the selector
\* (the cluster configuration loaded).
C17_SelectorIdentity ==
    (entry = "config_storage_handler" /\ LabelsIfFilters(query).kind \in {"dict", "None"}
        /\ "load_kube_config" \notin outage)
    => /\ InspectorOfQuery.raised = None
       /\ InspectorOfQuery.label_selector = SelectorOf(LabelsIfFilters(query).entries)
       /\ LabelsIfFilters(query).entries = << <<"app", "x">>, <<"tier", "y">> >>
          => InspectorOfQuery.label_selector = "app=x,tier=y"
       /\ LabelsIfFilters(query).entries = <<>> => InspectorOfQuery.label_selector = ""
       /\ (query.resource_type = "config_maps" /\ query.action = "list"
            /\ result.text.tpl = "")
          => {l[1] : l \in SeqToSet(result.text.lines)} = CarryingLabels

\* A list query selecting by the mapping {'tier':'y','app':'x'}, in that
\* order, has returned a ConfigMap that carries both labels.
C17_Witness ==
    /\ entry = "config_storage_handler" /\ query.action = "list"
    /\ LabelsIfFilters(query) = DictLabels(<< <<"tier", "y">>, <<"app", "x">> >>)
    /\ result.text.tpl = "" /\ result.text.lines # <<>>

----------------------------------------------------------------------------
(* Properties of the size comparisons: vocabulary *)

\* The size literals of the form digits-then-unit with a unit of '', Ki, Mi,
\* Gi, Ti or Pi: the text, its magnitude and the power of 1024 of its unit.
WellFormed ==
    {[text |-> m[1] \o u[1], magnitude |-> m[2], tier |-> u[2]] :
        m \in { <<"0", 0>>, <<"1", 1>>, <<"2", 2>>, <<"10", 10>>, <<"50", 50>>,
                <<"100", 100>>, <<"1023", 1023>>, <<"1024", 1024>>, <<"1500", 1500>> },
        u \in { <<"", 0>>, <<"Ki", 1>>, <<"Mi", 2>>, <<"Gi", 3>>, <<"Ti", 4>>, <<"Pi", 5>> }}

IsWellFormed(text) == \E w \in WellFormed : w.text = text
Quantity(text) == CHOOSE w \in WellFormed : w.text = text

\* The literals without a leading digit.
Unparseable == {"Gi", "big", ".5Gi"}

\* magnitude * 1024^(tier - least), least the smaller tier of the two
\* quantities compared; past 1024^2 times a magnitude of at least 1 the
\* product exceeds every magnitude, and 2^30 stands for it.
Scaled(w, least) ==
    IF w.magnitude = 0 THEN 0
    ELSE IF w.tier - least >= 3 THEN 1073741824
    ELSE w.magnitude * 1024 ^ (w.tier - least)

\* a op b, of the byte counts magnitude * 1024^tier, as integers.
Stands(op, a, b) ==
    LET least == IF a.tier < b.tier THEN a.tier ELSE b.tier
    IN  CASE op = ">" -> Scaled(a, least) > Scaled(b, least)
          [] op = "<" -> Scaled(a, least) < Scaled(b, least)
          [] op = "=" -> Scaled(a, least) = Scaled(b, least)
          [] OTHER -> FALSE

\* A list query of volumes (persistent_volume) or claims (pv), with filters,
\* has been executed by its category's handler.
RanVolumeList ==
    /\ \/ entry = "cluster_handler" /\ query.resource_type = "persistent_volume"
       \/ entry = "config_storage_handler" /\ query.resource_type = "pv"
    /\ query.action = "list" /\ HasFilters(query)

\* ... and the query compares sizes: no storage class, an operator and a size.
RanSizeComparison ==
    /\ RanVolumeList
    /\ ~Truthy(query.filters.storage_class)
    /\ query.filters.operator \in {">", "<", "="} /\ Truthy(query.filters.size)

\* The objects the executed list is about: the volumes of the cluster, or
\* the bound claims of the query's namespace.
Listable ==
    IF query.resource_type = "persistent_volume" THEN SeqToSet(cluster.persistent_volumes)
    ELSE {c \in SeqToSet(cluster.persistent_volume_claims) :
             c.namespace = query.namespace /\ c.capacity # None}

\* The names the executed list returned.
ListedNames == {l[1] : l \in SeqToSet(result.text.lines)}

\* C13 -- quantity comparison is exact: whenever the capacity filter of the
\* volumes decides, for a capacity and a size that are digits followed by
\* '', Ki, Mi, Gi, Ti or Pi and an operator of >, < and =, the volume is
\* listed iff its byte count magnitude * 1024^tier stands in the relation to
\* the size's; '1Gi' is 1073741824 bytes, '2Gi' > '1500Mi' and
\* '1Gi' = '1024Mi'.
C13_ExactComparison ==
    (RanSizeComparison /\ query.resource_type = "persistent_volume"
        /\ IsWellFormed(query.filters.size)
        /\ result.status = "returned"
        /\ result.text.tpl \in {"PersistentVolumes where capacity",
                                "No PersistentVolumes found where capacity"})
    => /\ \A pv \in Listable :
             (pv.name \in ListedNames)
             <=> Stands(query.filters.operator, Quantity(pv.capacity),
                        Quantity(query.filters.size))
       /\ parse_size("1Gi") = Limbs(1073741824)
       /\ CapacityMatches(">", parse_size("2Gi"), parse_size("1500Mi"))
       /\ CapacityMatches("=", parse_size("1Gi"), parse_size("1024Mi"))

\* The capacity filter has listed a volume of 2Gi as larger than 1500Mi.
C13_Witness ==
    /\ RanSizeComparison /\ query.resource_type = "persistent_volume"
    /\ query.filters.operator = ">" /\ query.filters.size = "1500Mi"
    /\ result.text.tpl = "PersistentVolumes where capacity"
    /\ result.text.lines = << <<"pv1", "2Gi">> >>

\* C14 -- a list query of resource_type pv with a size and an operator of >,
\* < and = returns exactly the volumes whose capacity stands in the relation
\* to the size (with volumes of 10Gi and 100Gi, '>' and '50Gi': only the one
\* of 100Gi).
C14_SizeFilter ==
    (RanSizeComparison /\ query.resource_type = "pv" /\ IsWellFormed(query.filters.size)
        /\ outage = {} /\ LabelsIfFilters(query).entries = <<>>)
    => /\ result.status = "returned"
       /\ ListedNames = {v.name : v \in {v \in Listable :
                            Stands(query.filters.operator, Quantity(v.capacity),
                                   Quantity(query.filters.size))}}

\* C15 -- a size literal with no leading digit parses to 0 and raises
\* nothing, and a size comparison with such a size matches no volume,
\* whatever the operator.
C15_Unparseable ==
    (RanSizeComparison /\ query.filters.size \in Unparseable
        /\ outage = {} /\ LabelsIfFilters(query).entries = <<>>)
    => /\ parse_size(query.filters.size) = Limbs(0)
       /\ result.status = "returned"
       /\ result.text.tpl \in {"No PersistentVolumes found where capacity",
                               "No PVCs larger than"}
       /\ ListedNames = {}

\* C19 -- the volumes a size comparison lists appear in the order of their
\* capacities (ascending or descending), whatever order the cluster API
\* returned them in.
C19_CapacityOrder ==
    (RanSizeComparison /\ result.status = "returned"
        /\ result.text.tpl \in {"PersistentVolumes where capacity", "PVCs larger than"})
    => LET capacity == [i \in DOMAIN result.text.lines |-> Quantity(result.text.lines[i][2])]
       IN  \/ \A i, j \in DOMAIN capacity : i < j => ~Stands(">", capacity[i], capacity[j])
           \/ \A i, j \in DOMAIN capacity : i < j => ~Stands("<", capacity[i], capacity[j])

\* The filters of the executed list with every filter below the first one
\* set, in the order storage class, size comparison, reclaim policy, labels,
\* taken out.
HighestOnly ==
    LET f == query.filters
        compares == IF query.resource_type = "persistent_volume"
                    THEN Truthy(f.operator) /\ Truthy(f.size) ELSE Truthy(f.size)
    IN  IF Truthy(f.storage_class)
        THEN VolumeFilters(f.storage_class, None, None, None, NoLabels)
        ELSE IF compares THEN VolumeFilters(None, f.operator, f.size, None, NoLabels)
        ELSE IF Truthy(f.reclaim_policy)
        THEN VolumeFilters(None, None, None, f.reclaim_policy, NoLabels)
        ELSE f

\* The texts of each filter path of the volumes.
PathTexts(path) ==
    CASE path = "storage_class" ->
            {"PersistentVolumes using storage class",
             "No PersistentVolumes found using storage class",
             "Error finding persistent volumes using storage class"}
      [] path = "size" ->
            {"PersistentVolumes where capacity", "No PersistentVolumes found where capacity",
             "Error retrieving persistent volumes by capacity"}
      [] path = "reclaim_policy" ->
            {"PersistentVolumes with reclaim policy",
             "No PersistentVolumes found with reclaim policy",
             "Error listing persistent volumes with reclaim policy"}
      [] OTHER ->
            {"Persistent Volumes in the cluster:", "No persistent volumes found.",
             "Error listing persistent volumes"}

\* C16 -- filter priority of the lists of storage-backed objects: one filter
\* path runs, the first of storage class, size comparison, reclaim policy and
\* the label-only list whose filter is set, and the values of the filters
\* below it have no effect on the result.
C16_FilterPriority ==
    (RanVolumeList /\ ~Truthy(query.filters.status) /\ ~Truthy(query.filters.volume_mode)
        /\ "load_kube_config" \notin outage)
    => LET alone == [query EXCEPT !.filters = HighestOnly]
           f == query.filters
       IN  /\ result.status = "returned"
           /\ IF entry = "cluster_handler"
              THEN /\ result.text = cluster_handler(alone, cluster, outage).text
                   /\ result.text.tpl \in
                         PathTexts(IF Truthy(f.storage_class) THEN "storage_class"
                                   ELSE IF Truthy(f.operator) /\ Truthy(f.size) THEN "size"
                                   ELSE IF Truthy(f.reclaim_policy) THEN "reclaim_policy"
                                   ELSE "labels")
              ELSE result.text = config_storage_handler(alone, cluster, outage).text

----------------------------------------------------------------------------
(* Properties of the listings *)

\* words[i..] begins with the phrase, for some i.
HasPhrase(words, phrase) ==
    \E i \in 1..(Len(words) - Len(phrase) + 1) :
        SubSeq(words, i, i + Len(phrase) - 1) = phrase

\* The phrase 'No <kind>' of the kind a list query is about, in each of the
\* spellings of the kind that its inspector uses.
SentinelPhrases ==
    CASE query.resource_type = "deployment" -> { <<"No", "deployments">> }
      [] query.resource_type = "config_maps" -> { <<"No", "configmaps">> }
      [] query.resource_type = "persistent_volume" ->
            { <<"No", "persistent", "volumes">>, <<"No", "PersistentVolumes">> }
      [] OTHER -> { <<"No", "persistent", "volume", "claims">>, <<"No", "PVCs">> }

\* A list action of an inspector whose list methods the model opens has been
\* executed: of deployments, ConfigMaps, volumes or claims.
RanList ==
    /\ query.action = "list"
    /\ \/ /\ entry \in {"handle_query", "workload_handler"}
          /\ query.resource_category = "workload" /\ query.resource_type = "deployment"
       \/ entry = "config_storage_handler" /\ query.resource_type = "config_maps"
       \/ /\ RanVolumeList
          /\ ~Truthy(query.filters.status) /\ ~Truthy(query.filters.volume_mode)

\* C12 -- sentinel contract: a list action that finds no matching object, on
\* whatever filter path, returns a non-empty string that contains the phrase
\* 'No <kind>' of its kind.
C12_Sentinel ==
    (RanList /\ outage = {} /\ result.status = "returned" /\ result.text.lines = <<>>)
    => /\ result.text.tpl # ""
       /\ "words" \in DOMAIN result.text
       /\ \E phrase \in SentinelPhrases : HasPhrase(result.text.words, phrase)

\* "name (Replicas: available/total)" of a deployment, the unset counts as 0.
Rendered(d) ==
    d.name \o " (Replicas: " \o ToString(IF d.available_replicas = <<>> THEN 0
                                          ELSE d.available_replicas[1])
    \o "/" \o ToString(IF d.replicas = <<>> THEN 0 ELSE d.replicas[1]) \o ")"

\* C18 -- a deployment list query with status filter 'active' names exactly
\* the deployments of the namespace whose available_replicas is greater than
\* 0, each as 'name (Replicas: available/desired)', in the order listed; one
\* with available_replicas 0 or unset is never named.
C18_ActiveDeployments ==
    (RanList /\ query.resource_type = "deployment" /\ HasFilters(query)
        /\ query.filters.status = "active" /\ outage = {} /\ result.status = "returned")
    => LET active == SelectSeqBy(cluster.deployments,
                         {d \in SeqToSet(cluster.deployments) :
                             /\ d.namespace = query.namespace
                             /\ d.available_replicas \notin {<<>>, <<0>>}})
       IN  /\ result.text.lines = [i \in DOMAIN active |-> << Rendered(active[i]) >>]
           /\ \A i \in DOMAIN active :
                 (active[i].name = "api" /\ active[i].available_replicas = <<1>>
                     /\ active[i].replicas = <<3>>)
                 => result.text.lines[i] = << "api (Replicas: 1/3)" >>

\* handle_query has answered a list of the active deployments, of two
\* deployments one of which has no available replica, with the other alone.
C18_Witness ==
    /\ entry = "handle_query" /\ query.resource_type = "deployment"
    /\ query.action = "list" /\ query.filters.status = "active"
    /\ Len(cluster.deployments) = 2
    /\ cluster.deployments[2].available_replicas = <<0>>
    /\ result.text.lines = << << "api (Replicas: 1/3)" >> >>

----------------------------------------------------------------------------
(* Properties of the failures of the cluster API *)

\* The error texts of the list methods of deployments, ConfigMaps, volumes
\* and claims.
ListErrorTexts ==
    { "Error listing deployments", "Error listing configmaps",
      "Error listing persistent volumes",
      "Error finding persistent volumes using storage class",
      "Error retrieving persistent volumes by capacity",
      "Error listing persistent volumes with reclaim policy",
      "Error listing persistent volume claims", "Error listing PVCs by storage class",
      "Error retrieving PVCs by size" }

\* C11 -- a failure of the cluster API, met by a call of an inspector or
\* while the inspector of a volume list sets up its access to the cluster,
\* comes back as a returned error text: no exception leaves the inspector.
C11_ProviderFailure ==
    (\/ \E i \in DOMAIN calls : ~calls[i].ok
     \/ RanVolumeList /\ "load_kube_config" \in outage)
    => /\ result.status = "returned"
       /\ result.text.tpl \in ProviderErrorTexts \cup ListErrorTexts

----------------------------------------------------------------------------
(* Properties of the effects on the cluster *)

\* What the list and read operations of the cluster API are of.
Resources ==
    { "cluster_role", "cluster_role_binding", "event_for_all_namespaces", "ingress_class",
      "namespace", "namespaced_config_map", "namespaced_cron_job", "namespaced_daemon_set",
      "namespaced_deployment", "namespaced_endpoints", "namespaced_event",
      "namespaced_ingress", "namespaced_ingress_status", "namespaced_job",
      "namespaced_network_policy", "namespaced_persistent_volume_claim", "namespaced_pod",
      "namespaced_pod_log", "namespaced_replica_set", "namespaced_resource_quota",
      "namespaced_role", "namespaced_role_binding", "namespaced_secret",
      "namespaced_service", "namespaced_stateful_set", "node", "persistent_volume",
      "pod_for_all_namespaces" }

\* The operations that list the objects of a kind or read one object.
ReadingOperations ==
    {"list_" \o r : r \in Resources} \cup {"read_" \o r : r \in Resources}

\* C20 -- read-only: executing a query leaves the cluster as it was, and
\* every cluster API operation made while executing it is a list or a read.
C20_ReadOnly ==
    [][/\ cluster' = cluster
       /\ \A i \in DOMAIN calls' : calls'[i].op \in ReadingOperations]_vars

\* A query has been executed with both a list and a read of the cluster API.
C20_Witness ==
    /\ entry # "idle"
    /\ \E i \in DOMAIN calls : calls[i].op \in {"list_" \o r : r \in Resources}
    /\ \E i \in DOMAIN calls : calls[i].op \in {"read_" \o r : r \in Resources}

----------------------------------------------------------------------------
(* Properties of the calls of one query *)

\* C21 -- fail-fast: once a cluster API operation made for a query has
\* failed, no further operation is made for that query; the failed call is
\* the last one of the query.
C21_FailFast ==
    \A i \in DOMAIN calls : ~calls[i].ok => i = Len(calls)

\* The actions of an inspector on the objects of its one kind.
SingleKindActions ==
    {"list", "details", "status", "creation_time", "count", "exists", "annotations"}

\* The texts that a router or a handler answers with itself, no method of an
\* inspector called.
RouterTexts ==
    UnsupportedTexts
    \cup { "Unsupported action or missing required parameters for pod.",
           "Unknown Resource Type", "Dummy" }

\* C22 -- an action of an inspector on its one kind makes exactly one cluster
\* API operation for the query, whether the operation succeeds or fails, and
\* never makes the same operation again.
C22_OneCall ==
    (entry # "idle" /\ query.action \in SingleKindActions)
    => /\ Len(calls) <= 1
       /\ (result.status = "returned" /\ result.text.tpl \notin RouterTexts)
          => Len(calls) = 1

\* A list of deployments has been answered with the error text of the one
\* call it made, which failed.
C22_Witness ==
    /\ entry # "idle" /\ query.action = "list" /\ query.resource_type = "deployment"
    /\ Len(calls) = 1 /\ ~calls[1].ok
    /\ result.status = "returned" /\ result.text.tpl = "Error listing deployments"

----------------------------------------------------------------------------
(* Properties of the namespace of a query *)

\* The resource types of the data model whose objects live in a namespace.
NamespacedTypes ==
    { "deployment", "pod", "cronjob", "daemonset", "job", "replicaset", "statefulset",
      "service", "ingress", "config_maps", "pv", "secrets", "role", "role_binding",
      "event", "network_policy", "service_account" }

\* C26 -- a query of a namespaced kind that names no namespace is executed
\* against the namespace 'default': each of its cluster API operations is
\* made by an inspector of the namespace 'default', and none of them lists
\* the objects of all namespaces.
C26_DefaultNamespace ==
    (entry \in CategoryEntries /\ query.namespace = None
        /\ query.resource_type \in NamespacedTypes)
    => \A i \in DOMAIN calls :
          /\ calls[i].namespace = "default"
          /\ calls[i].op \notin {"list_event_for_all_namespaces",
                                 "list_pod_for_all_namespaces"}

----------------------------------------------------------------------------
(* Properties of the filters of a query *)

\* The query sets no filter: it carries no filters object, or one whose
\* fields are all null (absent) and whose labels are none.
SetsNoFilter ==
    \/ ~HasFilters(query)
    \/ /\ \A f \in FilterFields \ {"labels"} : query.filters[f] = None
       /\ query.filters.labels = NoLabels

\* C25 -- a query that sets no filter field is answered, never with an
\* exception; a list of deployments that sets no status lists every
\* deployment, as with status 'all'.
C25_UnsetFilters ==
    (entry # "idle" /\ query.namespace = "default" /\ outage = {} /\ SetsNoFilter)
    => /\ result.status = "returned"
       /\ (query.resource_category = "workload" /\ query.resource_type = "deployment"
              /\ query.action = "list")
          => result.text = list_deployments(KubernetesBase("default", NoLabels, {}),
                                            "all", cluster, {}).text

----------------------------------------------------------------------------
(* Properties of the Secret scans *)

\* The answer of used_by(name) for the Secret called name, asked of the same
\* cluster in the same condition as the executed query.
UsedBySecret(name) ==
    config_storage_handler(
        Query("config_storage", "secrets", "used_by", query.namespace, name, query.filters),
        cluster, outage)

\* The Secrets that exist in the namespace of the executed query.
SecretsOfNamespace ==
    {o.name : o \in {o \in SeqToSet(cluster.secrets) : o.namespace = query.namespace}}

\* The names the imagePullSecrets entries of a pod spec refer to.
PullNames(spec) == {spec.image_pull_secrets[i].name : i \in DOMAIN spec.image_pull_secrets}

\* A namespace-wide unused query of Secrets has answered and no cluster API
\* operation has failed.
RanUnusedSecrets ==
    /\ RanUnused /\ query.resource_type = "secrets" /\ outage = {}
    /\ LabelsIfFilters(query).entries = <<>>
    /\ result.status = "returned"

\* C24 -- Secret used/unused agreement: for every Secret that exists in the
\* namespace, used_by(secret) reports at least one workload iff the Secret is
\* absent from the result set of the namespace-wide unused query on the same
\* cluster state; a Secret that a Deployment, StatefulSet, DaemonSet or
\* owner-less Pod names in imagePullSecrets is never in the result set.
C24_SecretAgreement ==
    RanUnusedSecrets
    => /\ \A name \in SecretsOfNamespace :
             (UsedBySecret(name).text.tpl = "Workloads using Secret")
             <=> (name \notin UnusedNames)
       /\ \A w \in Candidates(cluster, query.namespace) :
             PullNames(w.spec) \cap UnusedNames = {}

\* An unused query of Secrets has answered with one Secret in its result set
\* and another out of it, whose only reference is an imagePullSecrets entry.
C24_Witness ==
    /\ RanUnusedSecrets
    /\ UnusedNames # {}
    /\ \E name \in SecretsOfNamespace \ UnusedNames :
          /\ UsedBySecret(name).text.tpl = "Workloads using Secret"
          /\ \E w \in Candidates(cluster, query.namespace) : name \in PullNames(w.spec)
          /\ \A w \in Candidates(cluster, query.namespace) :
                /\ name \notin VolumeNames(w.spec, "secrets")
                /\ name \notin ReferencedNames([w.spec EXCEPT !.image_pull_secrets = <<>>],
                                               "secrets")

----------------------------------------------------------------------------
(* Properties of the pods that have an owner *)

\* The answer of used_by(name) for the object of the executed query's kind
\* called name, asked of the same cluster in the same condition.
UsedBy(name) ==
    config_storage_handler(
        Query("config_storage", query.resource_type, "used_by", query.namespace, name,
              query.filters),
        cluster, outage)

\* The name is referred to by a Pod of the namespace that has an owner, and by
\* no Deployment, StatefulSet, DaemonSet or owner-less Pod of the namespace.
OnlyOwnedPodsRefer(name) ==
    /\ \E p \in OwnedPods(cluster, query.namespace) :
          name \in ReferencedNames(p.spec, query.resource_type)
    /\ \A w \in Candidates(cluster, query.namespace) :
          name \notin ReferencedNames(w.spec, query.resource_type)

NoWorkloads == {"No workloads are using ConfigMap", "No workloads are using Secret"}

\* The objects of the executed query's kind that exist in its namespace.
StoredOfNamespace ==
    {o.name : o \in {o \in SeqToSet(IF query.resource_type = "secrets"
                                    THEN cluster.secrets ELSE cluster.config_maps) :
                        o.namespace = query.namespace}}

\* C30 -- a ConfigMap or Secret referred to only by Pods that have an owner
\* reference (to a Job, a CronJob or a ReplicaSet) is answered by used_by with
\* "No workloads are using ..." and is in the result set of the unused query.
C30_OwnedPodsOnly ==
    /\ (RanUsedBy /\ query.resource_type \in {"config_maps", "secrets"} /\ outage = {}
          /\ result.status = "returned" /\ OnlyOwnedPodsRefer(query.specific_name))
       => result.text.tpl \in NoWorkloads
    /\ (RanUnused /\ outage = {} /\ result.status = "returned"
          /\ LabelsIfFilters(query).entries = <<>>)
       => \A name \in StoredOfNamespace : OnlyOwnedPodsRefer(name) => name \in UnusedNames

\* An unused query has listed an object that only a Pod of a Job refers to,
\* and used_by of that object answers that no workloads use it.
C30_Witness ==
    /\ RanUnused /\ outage = {} /\ result.status = "returned"
    /\ \E name \in UnusedNames :
          /\ OnlyOwnedPodsRefer(name)
          /\ \E p \in OwnedPods(cluster, query.namespace) :
                /\ p.owner_references = << "Job" >>
                /\ name \in ReferencedNames(p.spec, query.resource_type)
          /\ UsedBy(name).text.tpl \in NoWorkloads

----------------------------------------------------------------------------
(* Properties of the event listings *)

\* The events an event query is about: those of its namespace, or of every
\* namespace when it names none.
VisibleEvents ==
    {e \in SeqToSet(cluster.events) : Truthy(query.namespace) => e.namespace = query.namespace}

\* An event's timestamp, as stated: its last_timestamp, else its event_time,
\* else its creation timestamp.
StatedTimestamp(e) ==
    IF e.last_timestamp # <<>> THEN e.last_timestamp[1]
    ELSE IF e.event_time # <<>> THEN e.event_time[1]
    ELSE e.creation_timestamp

\* A list query of events with the count, and no reason or type, has been
\* answered without a provider failure.
RanCounted(count) ==
    /\ entry = "cluster_handler" /\ query.resource_type = "event" /\ query.action = "list"
    /\ HasFilters(query) /\ query.filters.count = count
    /\ ~Truthy(query.filters.reason) /\ ~Truthy(query.filters.event_type)
    /\ outage = {} /\ result.status = "returned"

\* The answer shows min(n, number of events) events, latest first, and no
\* event left out is later than one shown.
ShowsLatest(n) ==
    LET lines == result.text.lines
        shown == {lines[i][2] : i \in DOMAIN lines}
    IN  /\ Len(lines) = (IF n < Cardinality(VisibleEvents) THEN n
                         ELSE Cardinality(VisibleEvents))
        /\ Cardinality(shown) = Len(lines)
        /\ \A i \in DOMAIN lines :
              \E e \in VisibleEvents : lines[i] = << StatedTimestamp(e), e.name >>
        /\ \A i, j \in DOMAIN lines : i < j => lines[i][1] >= lines[j][1]
        /\ \A e \in VisibleEvents :
              e.name \notin shown => \A i \in DOMAIN lines : lines[i][1] >= StatedTimestamp(e)

\* C27 -- an event list query with count N returns min(N, number of events)
\* events, those with the latest timestamps, latest first, the timestamp of
\* an event being its last_timestamp, else its event_time, else its creation
\* timestamp.
C27_AnyCount ==
    \A c \in {"0", "1", "2", "4"} :
        RanCounted(c) => ShowsLatest(CountValue(c))

\* The same for the counts of at least 1, which the handler takes for a count.
C27_RecentEvents ==
    \A c \in {"1", "2", "4"} :
        RanCounted(c) => ShowsLatest(CountValue(c))

\* A query with a count has been answered with fewer events than there are,
\* in another order than the API server returned them, and the timestamp of
\* an event shown is its event_time.
RecentEventsShown ==
    /\ RanCounted("2")
    /\ Len(result.text.lines) = 2 /\ Cardinality(VisibleEvents) = 3
    /\ \E e, f \in VisibleEvents :
          /\ e.name = "e1" /\ f.name = "e2"
          /\ result.text.lines[1] = << StatedTimestamp(f), f.name >>
          /\ result.text.lines[2][2] # "e1"
          /\ f.last_timestamp = <<>> /\ f.event_time # <<>>

----------------------------------------------------------------------------
(* Properties of the order of a listing *)

\* An image_pull_secrets query has answered with a listing.
RanPullSecrets ==
    /\ entry = "config_storage_handler" /\ query.resource_type = "secrets"
    /\ query.action = "image_pull_secrets"
    /\ result.status = "returned" /\ result.text.tpl = "Secrets used as imagePullSecrets:"

\* The place of the first entry of the name among the imagePullSecrets
\* entries of the pods of the namespace, as the API server returns them.
FirstEntry(name) ==
    LET entries == PullSecretNames(ListNamespaced(cluster.pods, query.namespace, ""))
    IN  CHOOSE i \in DOMAIN entries :
            entries[i] = name /\ \A k \in 1..(i - 1) : entries[k] # name

\* C28 -- deterministic listings: the items of a simple listing stand in the
\* order in which the API server returned them (insertion order), so that the
\* text is the same for every repetition of the query on the same cluster
\* state; stated of the image_pull_secrets listing.
C28_InsertionOrder ==
    RanPullSecrets
    => \A i, j \in DOMAIN result.text.lines :
          i < j => FirstEntry(result.text.lines[i][1]) < FirstEntry(result.text.lines[j][1])

----------------------------------------------------------------------------
(* A used_by scan, listing by listing, in a cluster that changes *)

MaxChanges == 2     \* changes other clients make to the cluster during one scan

\* The workloads of the scanned cluster: one name per kind, with no reference
\* or mounting everything called "app".
ScanWorkloads ==
    {Workload(k, "api", "default", <<>>, s) :
        k \in {"Deployment", "StatefulSet", "DaemonSet", "Pod"},
        s \in {EmptySpec, MountsAll("app")}}

ScanQuery ==
    Query("config_storage", "config_maps", "used_by", "default", "app", SchemaFilters("", <<>>))

InitScan ==
    /\ cluster \in {Cluster(w, BothStored, BothStored) : w \in SeqsUpTo(ScanWorkloads, 1)}
    /\ outage \in {{}, {"list_namespaced_daemon_set"}}
    /\ query = ScanQuery
    /\ hash_order = << "app", "db" >>
    /\ entry = "idle"
    /\ result = NoResult
    /\ calls = <<>>
    /\ NoScan
    /\ NoSession

\* config_maps_hamdler has routed the query to get_workloads_using_configmap.
BeginScan ==
    /\ entry = "idle"
    /\ entry' = "get_workloads_using_configmap"
    /\ history' = << cluster >>
    /\ UNCHANGED <<cluster, outage, query, result, calls, hash_order, listed, process>>

\* What the next listing of the scan returns, of the cluster as it now is.
ItemsOf(operation) ==
    ListNamespaced(CASE operation = "list_namespaced_deployment" -> cluster.deployments
                     [] operation = "list_namespaced_stateful_set" -> cluster.statefulsets
                     [] operation = "list_namespaced_daemon_set" -> cluster.daemonsets
                     [] operation = "list_namespaced_pod" -> cluster.pods,
                   query.namespace, "")

\* The next of the four listings: it returns the objects the cluster holds
\* now, or fails and ends the scan with its error text.
ListWorkloads ==
    /\ entry = "get_workloads_using_configmap"
    /\ Len(calls) < Len(WorkloadListings)
    /\ LET operation == WorkloadListings[Len(calls) + 1]
       IN  IF operation \in outage
           THEN /\ calls' = Append(calls, InNamespace(query.namespace,
                                           Returned("", << Call(operation, FALSE) >>)).calls[1])
                /\ result' = [status |-> "returned",
                              text |-> Text("Error finding workloads using configmap", "", <<>>)]
                /\ entry' = "config_storage_handler"
                /\ UNCHANGED listed
           ELSE /\ calls' = Append(calls, InNamespace(query.namespace,
                                           Returned("", << Call(operation, TRUE) >>)).calls[1])
                /\ listed' = Append(listed, ItemsOf(operation))
                /\ UNCHANGED <<result, entry>>
    /\ UNCHANGED <<cluster, outage, query, hash_order, history, process>>

\* The cluster as the scan has seen it: each kind as its listing returned it.
Seen ==
    [cluster EXCEPT !.deployments = listed[1], !.statefulsets = listed[2],
                    !.daemonsets = listed[3], !.pods = listed[4]]

\* The loops over what the four listings returned, and the answer.
AnswerScan ==
    /\ entry = "get_workloads_using_configmap"
    /\ Len(listed) = Len(WorkloadListings)
    /\ result' = [status |-> "returned",
                  text |-> get_workloads_using_configmap(
                               KubernetesBase(query.namespace, NoLabels, {}),
                               query.specific_name, Seen, {}).text]
    /\ entry' = "config_storage_handler"
    /\ UNCHANGED <<cluster, outage, query, calls, hash_order, scan, process>>

\* The cluster with one more workload, or with one less.
Created(w) ==
    CASE w.kind = "Deployment" -> [cluster EXCEPT !.deployments = Append(@, w)]
      [] w.kind = "StatefulSet" -> [cluster EXCEPT !.statefulsets = Append(@, w)]
      [] w.kind = "DaemonSet" -> [cluster EXCEPT !.daemonsets = Append(@, w)]
      [] w.kind = "Pod" -> [cluster EXCEPT !.pods = Append(@, w)]

Deleted(w) ==
    [cluster EXCEPT !.deployments = SelectSeqBy(@, SeqToSet(@) \ {w}),
                    !.statefulsets = SelectSeqBy(@, SeqToSet(@) \ {w}),
                    !.daemonsets = SelectSeqBy(@, SeqToSet(@) \ {w}),
                    !.pods = SelectSeqBy(@, SeqToSet(@) \ {w})]

Workloads(cl) ==
    SeqToSet(cl.deployments) \cup SeqToSet(cl.statefulsets)
    \cup SeqToSet(cl.daemonsets) \cup SeqToSet(cl.pods)

\* Another client of the cluster changes it while the scan is under way.
Change(after) ==
    /\ entry = "get_workloads_using_configmap"
    /\ Len(history) <= MaxChanges
    /\ cluster' = after
    /\ history' = Append(history, after)
    /\ UNCHANGED <<outage, query, entry, result, calls, hash_order, listed, process>>

CreateWorkload ==
    \E w \in ScanWorkloads :
        /\ \A v \in Workloads(cluster) : v.kind # w.kind
        /\ Change(Created(w))

DeleteWorkload == \E w \in Workloads(cluster) : Change(Deleted(w))

NextScan ==
    \/ BeginScan
    \/ ListWorkloads
    \/ AnswerScan
    \/ CreateWorkload
    \/ DeleteWorkload

SpecScan == InitScan /\ [][NextScan]_vars

----------------------------------------------------------------------------
(* Properties of a scan in a changing cluster *)

\* The answer of the used_by scan made of one state of the cluster.
AnswerOf(cl) ==
    get_workloads_using_configmap(KubernetesBase(query.namespace, NoLabels, {}),
                                  query.specific_name, cl, {}).text

\* A Deployment, StatefulSet, DaemonSet or owner-less Pod of the namespace
\* refers to the ConfigMap of the query.
Referenced(cl) ==
    \E w \in Candidates(cl, query.namespace) :
        query.specific_name \in ReferencedNames(w.spec, "config_maps")

\* The scan has made its four listings and answered.
Scanned == entry = "config_storage_handler" /\ Len(listed) = Len(WorkloadListings)

\* C29 -- snapshot atomicity: the answer of a used_by scan is the answer
\* computed on one of the states the cluster was in during the scan; a
\* ConfigMap that a Deployment, StatefulSet, DaemonSet or owner-less Pod refers
\* to in each of those states is never answered to have no workloads.
C29_Snapshot ==
    Scanned
    => /\ \E i \in DOMAIN history : result.text = AnswerOf(history[i])
       /\ (\A i \in DOMAIN history : Referenced(history[i]))
          => result.text.tpl # "No workloads are using ConfigMap"

\* The second part of C29 alone.
AlwaysReferencedIsReported ==
    (Scanned /\ \A i \in DOMAIN history : Referenced(history[i]))
    => result.text.tpl # "No workloads are using ConfigMap"

----------------------------------------------------------------------------
(* The server's process: requests handled one after another *)

MaxRequests == 3    \* requests the server is followed through

\* The contexts the kubeconfig file may name.
Contexts == {"minikube", "staging"}

\* A variant of load_kube_config that keeps a configuration once loaded, so
\* that a later request takes what an earlier one loaded: C23 must not hold
\* of it.
load_kube_config_once(loaded, file, request) ==
    IF loaded.by # 0 THEN loaded ELSE [context |-> file, by |-> request]

\* config.load_kube_config(): the default configuration of the client is
\* replaced by what the kubeconfig file holds now.
load_kube_config(loaded, file, request) == [context |-> file, by |-> request]

InitSession ==
    /\ cluster = Cluster(<<>>, BothStored, BothStored)
    /\ outage = {}
    /\ query = ScanQuery
    /\ hash_order = << "app", "db" >>
    /\ entry = "idle"
    /\ result = NoResult
    /\ calls = <<>>
    /\ NoScan
    /\ kubeconfig \in Contexts \cup {None}
    /\ configuration = NoConfiguration
    /\ handling = Idle
    /\ connected = <<>>

\* POST /query: the coroutine query_kuberetes calls handle_query and does not
\* yield before it returns, so a request is taken up when none is handled.
Accept ==
    /\ handling = Idle
    /\ Len(connected) < MaxRequests
    /\ handling' = [request |-> Len(connected) + 1, at |-> "extract"]
    /\ UNCHANGED <<cluster, outage, query, entry, result, calls, hash_order, scan,
                   kubeconfig, configuration, connected>>

\* The end of a request, with the configuration its client took, if any.
Respond(status, taken) ==
    /\ connected' = Append(connected, [status |-> status, context |-> taken.context,
                                       by |-> taken.by])
    /\ handling' = Idle

\* handle_query: the extraction by the shared extractor client, which no
\* statement assigns to; then the router, which builds an inspector or
\* answers with a fixed text.
Extract ==
    /\ handling.at = "extract"
    /\ \/ handling' = [handling EXCEPT !.at = "construct"] /\ UNCHANGED connected
       \/ Respond("returned", NoConfiguration)
    /\ UNCHANGED <<cluster, outage, query, entry, result, calls, hash_order, scan,
                   kubeconfig, configuration>>

\* KubernetesBase.__init__: load_kube_config, which raises when there is no
\* kubeconfig file.
Construct ==
    /\ handling.at = "construct"
    /\ IF kubeconfig = None
       THEN Respond("raised", NoConfiguration) /\ UNCHANGED configuration
       ELSE /\ configuration' = load_kube_config(configuration, kubeconfig, handling.request)
            /\ handling' = [handling EXCEPT !.at = "connect"]
            /\ UNCHANGED connected
    /\ UNCHANGED <<cluster, outage, query, entry, result, calls, hash_order, scan, kubeconfig>>

\* The inspector's client (client.CoreV1Api() and the like) takes the default
\* configuration; the calls of the query go where it says.
Connect ==
    /\ handling.at = "connect"
    /\ Respond("returned", configuration)
    /\ UNCHANGED <<cluster, outage, query, entry, result, calls, hash_order, scan,
                   kubeconfig, configuration>>

\* Outside the server, the kubeconfig file is rewritten or removed.
SwitchContext ==
    /\ kubeconfig' \in (Contexts \cup {None}) \ {kubeconfig}
    /\ UNCHANGED <<cluster, outage, query, entry, result, calls, hash_order, scan,
                   configuration, handling, connected>>

NextSession ==
    \/ Accept
    \/ Extract
    \/ Construct
    \/ Connect
    \/ SwitchContext

SpecSession == InitSession /\ [][NextSession]_vars

----------------------------------------------------------------------------
(* Properties of the server's process *)

\* C23 -- queries handled back to back do not influence one another: the
\* configuration the client of a request takes was loaded while that same
\* request was handled, never while another was; and while a request is
\* handled no other request is.
C23_Independence ==
    /\ \A i \in DOMAIN connected : connected[i].by \in {0, i}
    /\ handling.at = "connect" => configuration.by = handling.request
    /\ handling.request \in {0, Len(connected) + 1}

\* Two requests have been handled back to back, each with a client, the
\* second under another context than the first.
C23_Witness ==
    /\ Len(connected) >= 2
    /\ connected[1].by = 1 /\ connected[2].by = 2
    /\ connected[1].context # connected[2].context

====
